---- MODULE Spec2Model ----
(***************************************************************************)
(* SecondBrain ingestion pipeline (functions/main.py).                     *)
(*                                                                         *)
(* whatsapp_webhook receives a message, finds the sender, and either       *)
(* rejects, answers a conversational command, or queues a work item in     *)
(* pending_processing.  process_link_background is triggered once per      *)
(* created work item and runs scrape -> analyze -> embed -> graph-link ->  *)
(* save -> reminder -> reply -> cleanup, with one try/except around the    *)
(* whole pipeline that writes a fallback record.                           *)
(*                                                                         *)
(* Every Firestore call may raise; the outbound send never raises          *)
(* (send_whatsapp_message swallows its errors).  Time is counted in days.  *)
(***************************************************************************)
EXTENDS Integers, Sequences, FiniteSets, TLC

(* ---------------------------------------------------------------- bounds *)

\* Number of inbound webhook calls explored; each queues at most one work item.
MaxMsgs == 1

(* ----------------------------------------------------- values and inputs *)

\* Python None, and "key absent from the dict / field absent from the document".
Null == "<null>"

Missing == "<missing>"

NoLink == 0

NoIntent == -1

\* dict.get(key, default) on a dict modelled as [present: keys, v: values].
Get(d, k, default) == IF k \in d.present THEN d.v[k] ELSE default

\* Truthiness of a str-or-None value (Python `if x:` / `x or y`).
Truthy(x) == x \notin {"", Null, Missing}

\* Sender numbers as Twilio delivers them.
KnownSender == "whatsapp:+16462440305"

UnknownSender == "whatsapp:+19999999999"

Senders == {KnownSender, UnknownSender}

\* re.sub(r'\D', '', phone_number)
Digits(phone) == CASE phone \in {"whatsapp:+16462440305", "+16462440305", "16462440305"} -> "16462440305"
                   [] phone \in {"whatsapp:+19999999999", "+19999999999", "19999999999"} -> "19999999999"
                   [] OTHER -> ""

\* f"+{clean_number}"
WithPlus(digits) == CASE digits = "16462440305" -> "+16462440305"
                      [] digits = "19999999999" -> "+19999999999"
                      [] OTHER -> "+"

UIDs == {"u1"}

Range(seq) == {seq[i] : i \in 1..Len(seq)}

\* Message tokens.  A body is a sequence of whitespace-separated tokens.
Url1 == "https://example.com/article"

Url2 == "https://example.com/2"

\* A URL whose path holds a date word, and the same URL as a phone keyboard
\* capitalises it at the start of a message.
UrlTomorrow == "https://example.com/tomorrow"

UrlCaps == "Https://Example.com/Tomorrow"

HeTomorrow == "he:machar"

HeNextWeek == "he:shavua-haba"

HeIn == "he:beod"

HeDays == "he:yamim"

HeHello == "he:shalom"

HeReminder == "he:tizkoret"

\* A match of r'https?://[^\s]+' (case-sensitive).
IsUrl(tok) == tok \in {Url1, Url2, UrlTomorrow}

\* `w in tok`: the token contains the word.
Contains(tok, w) == tok = w \/ (w = "tomorrow" /\ tok = UrlTomorrow)

\* is_hebrew: any character in the Hebrew block.
IsHebrewTok(tok) == tok \in {HeTomorrow, HeNextWeek, HeIn, HeDays, HeHello, HeReminder}

\* `"2" in token`
HasDigit2(tok) == tok \in {"2", "12", Url2}

\* (\d+) and int(match.group(1)); -1 when the token is not a number.
NumVal(tok) == CASE tok = "1" -> 1 [] tok = "2" -> 2 [] tok = "3" -> 3 [] tok = "5" -> 5
                 [] OTHER -> -1

\* str.lower() on a token.
Lower(tok) == CASE tok = "Tomorrow" -> "tomorrow"
                [] tok = "Reminder" -> "reminder"
                [] tok = "I" -> "i"
                [] tok = UrlCaps -> UrlTomorrow
                [] OTHER -> tok

Bodies == { <<Url1>>, <<Url2, "Tomorrow">>, <<"hello">>, <<HeHello>>,
            <<"Reminder">>, <<"tomorrow">>, <<"2">> }

RECURSIVE FirstUrl(_)
\* re.search(r'https?://[^\s]+', body): the first URL token, or Null.
FirstUrl(body) == IF body = <<>> THEN Null
                  ELSE IF IsUrl(Head(body)) THEN Head(body)
                  ELSE FirstUrl(Tail(body))

is_hebrew(body) == \E i \in 1..Len(body) : IsHebrewTok(body[i])

RECURSIVE LowerAll(_)
\* body.lower().strip(), as a token list.
LowerAll(body) == IF body = <<>> THEN <<>>
                  ELSE <<Lower(Head(body))>> \o LowerAll(Tail(body))

RECURSIVE StripUrls(_)
\* re.sub(r'https?://[^\s]+', '', text).lower().strip(), as a token list.
StripUrls(body) == IF body = <<>> THEN <<>>
                   ELSE IF IsUrl(Head(body)) THEN StripUrls(Tail(body))
                   ELSE <<Lower(Head(body))>> \o StripUrls(Tail(body))

\* The N of the first "in N day(s)" (or Hebrew "be'od N yamim"), or -1.
InDays(text, inWords, dayWords) ==
    LET hits == {i \in 1..(Len(text) - 2) :
                    /\ text[i] \in inWords
                    /\ NumVal(text[i+1]) >= 0
                    /\ text[i+2] \in dayWords}
    IN  IF hits = {} THEN -1
        ELSE NumVal(text[(CHOOSE i \in hits : \A j \in hits : i <= j) + 1])

\* An intent parser whose numeric shortcuts match any text containing the
\* digit.
handle_reminder_intent_contains(body) ==
    LET text == StripUrls(body)
        has(w) == \E i \in 1..Len(text) : text[i] = w
    IN  IF has("tomorrow") THEN 1
        ELSE IF has("1") THEN 1
        ELSE IF has("2") THEN 3
        ELSE IF has("3") THEN 7
        ELSE NoIntent

\* handle_reminder_intent: the day offset of the due time, or NoIntent.
handle_reminder_intent(body) ==
    LET text == StripUrls(body)
        has(w) == \E i \in 1..Len(text) : Contains(text[i], w)
        pair(a, b) == \E i \in 1..(Len(text) - 1) : text[i] = a /\ text[i+1] = b
    IN  IF has("tomorrow") THEN 1
        ELSE IF pair("next", "week") THEN 7
        ELSE IF InDays(text, {"in"}, {"day", "days"}) >= 0
             THEN InDays(text, {"in"}, {"day", "days"})
        ELSE IF has(HeTomorrow) THEN 1
        ELSE IF has(HeNextWeek) THEN 7
        ELSE IF InDays(text, {HeIn}, {HeDays}) >= 0 THEN InDays(text, {HeIn}, {HeDays})
        ELSE IF text = <<"1">> THEN 1
        ELSE IF text = <<"2">> THEN 3
        ELSE IF text = <<"3">> THEN 7
        ELSE NoIntent

(* ------------------------------------------------ scraper and analyzer I/O *)

ScrapedKeys == {"html", "title", "text"}

\* {"html": "", "title": "", "text": ""}
EmptyScrape == [present |-> ScrapedKeys, v |-> [html |-> "", title |-> "", text |-> ""]]

PageScrape == [present |-> ScrapedKeys,
               v |-> [html |-> "<html>", title |-> "Page title", text |-> "page text"]]

\* What scrape_url can return; it never raises.
ScrapeResults == {EmptyScrape, PageScrape}

\* len(text) for the texts above.
TextLen(text) == IF text = "" THEN 0 ELSE 3000

ReadChars == 1500

AnalysisKeys == {"title", "summary", "category", "tags", "language"}

FullObj == [present |-> AnalysisKeys,
            v |-> [title |-> "AI title", summary |-> "AI summary", category |-> "Tech",
                   tags |-> <<"ai", "ml", "llm">>, language |-> "en"]]

\* A JSON object with none of the expected keys.
BareObj == [present |-> {},
            v |-> [title |-> "", summary |-> "", category |-> "", tags |-> <<>>, language |-> ""]]

\* A JSON object whose category is null.
NullCategoryObj == [present |-> AnalysisKeys,
                    v |-> [title |-> "AI title", summary |-> "AI summary", category |-> Null,
                           tags |-> <<"ai", "ml", "llm">>, language |-> "en"]]

\* A JSON object with six tags.
ManyTagsObj == [present |-> AnalysisKeys,
                v |-> [title |-> "AI title", summary |-> "AI summary", category |-> "Tech",
                       tags |-> <<"ai", "ml", "llm", "nlp", "gpu", "rag">>,
                       language |-> "en"]]

\* ClaudeService._mock_analysis
MockAnalysis == [present |-> {"title", "summary", "category", "tags"},
                 v |-> [title |-> "Untitled (Analysis Failed)",
                        summary |-> "Processing of this link failed or Gemini API was unavailable. Please check original.",
                        category |-> "General", tags |-> <<"failed">>, language |-> ""]]

\* JSON values as json.loads returns them: a dict, a list of values, or a str.
JDict(d) == [type |-> "dict", obj |-> d, items |-> <<>>]

JList(ds) == [type |-> "list", obj |-> BareObj, items |-> ds]

JStr == [type |-> "str", obj |-> BareObj, items |-> <<>>]

\* json.loads("null") is None.
JNull == [type |-> "null", obj |-> BareObj, items |-> <<>>]

\* What the model call can do: raise, or return text that parses to one of these.
ModelOutcomes == {"raises", "object", "bare_object", "null_category", "list_of_object",
                  "empty_list", "string"}

\* The further outcomes of the call: no client is configured, the response
\* has no text, the text is no JSON, or it parses to an object with six tags,
\* a list of two objects, or null.
AnalyzeOutcomes == ModelOutcomes \cup {"no_client", "empty_response", "bad_json",
                                       "many_tags", "list_of_two", "null"}

\* ClaudeService.analyze_text: without a client, and on any failure of the
\* call, the mock analysis; otherwise json.loads(response.text) as it is.
analyze_text(outcome) ==
    CASE outcome \in {"no_client", "raises", "empty_response", "bad_json"} -> JDict(MockAnalysis)
      [] outcome = "many_tags" -> JDict(ManyTagsObj)
      [] outcome = "list_of_two" -> JList(<<FullObj, BareObj>>)
      [] outcome = "null" -> JNull
      [] outcome = "object" -> JDict(FullObj)
      [] outcome = "bare_object" -> JDict(BareObj)
      [] outcome = "null_category" -> JDict(NullCategoryObj)
      [] outcome = "list_of_object" -> JList(<<FullObj>>)
      [] outcome = "empty_list" -> JList(<<>>)
      [] OTHER -> JStr

\* main.py validation: unwrap a non-empty list; the result may still be no dict.
ValidateAnalysis(a) ==
    IF a.type # "dict" /\ a.type = "list" /\ Len(a.items) > 0
    THEN JDict(a.items[1])
    ELSE a

(* ----------------------------------------------------------------- state *)

VARIABLES
    users,      \* users/{uid}: phone fields and lastSavedLinkId
    links,      \* users/{uid}/links: sequence of documents, id = index
    pending,    \* pending_processing: sequence of work items, id = index
    proc,       \* process_link_background invocation per work item
    outbox,     \* send_whatsapp_message calls, in order
    lastResp,   \* the most recent whatsapp_webhook call and its HTTP result
    msgs,       \* number of webhook calls so far
    now,        \* current time, in days
    sweeps,     \* run_reminder_check invocations, in start order
    call        \* a direct call of a pure function: its arguments and result

vars == <<users, links, pending, proc, outbox, lastResp, msgs, now, sweeps, call>>


(* ------------------------------------------------------------ documents *)

\* Epoch values are counted in thousandths of a day, so that
\* int(t.timestamp() * 1000) is a real change of unit.
TicksPerDay == 1000

\* int(t.timestamp() * 1000) of a datetime given in days.
ToMs(days) == days * TicksPerDay

\* A stored nextReminderAt: None, an integer epoch value, or a native
\* Firestore timestamp (a datetime, in days).
NoTime == [kind |-> "null", at |-> 0]

Ms(n) == [kind |-> "int", at |-> n]

Timestamp(days) == [kind |-> "timestamp", at |-> days]

\* A users/{uid} document.
UserDoc(phone) == [phone_number |-> phone, phoneNumber |-> Missing, lastSavedLinkId |-> NoLink]

\* A pending_processing document as whatsapp_webhook creates it.
PendingDoc(uid, url, from, body) ==
    [uid |-> uid, url |-> url, fromNumber |-> from, body |-> body,
     status |-> "queued", attempts |-> 0, error |-> Missing, exists |-> TRUE]

\* str(e) of the exception the handler caught.
ErrorText == "exception text"

\* The four pipeline stages.
Stages == <<"scrape", "analyze", "embed", "graph">>

\* Locals of one process_link_background invocation, plus a record of what
\* went wrong: otherFail tells whether a call other than a stage failed,
\* stageFails counts the stages that failed as long as nothing else has (0, 1,
\* or 2 for "two or more"), graphFailed tells whether find_related_links gave
\* up (kept as long as nothing else has failed), and stages lists the stages
\* run so far.
NewProc == [pc |-> "start", scraped |-> EmptyScrape, analysis |-> BareObj,
            related |-> {}, link_id |-> NoLink,
            stageFails |-> 0, otherFail |-> FALSE, graphFailed |-> FALSE,
            stages |-> <<>>]

Terminal == {"done", "failed", "crashed"}

\* The status values in pipeline order.
StatusOrder == <<"queued", "processing", "scraping", "analyzing", "saving", "done", "failed">>

Tasks == 1..Len(pending)

LinkIds == 1..Len(links)

\* The link_data dict of the success path (main.py "4. Build link document").
LinkData(t) ==
    LET a == proc[t].analysis
        sc == proc[t].scraped
        read == TextLen(Get(sc, "text", "")) \div ReadChars
    IN  [uid |-> pending[t].uid, task |-> t, url |-> pending[t].url,
         title |-> Get(a, "title", Get(sc, "title", "Untitled")),
         summary |-> Get(a, "summary", "No summary available"),
         tags |-> Get(a, "tags", <<>>),
         category |-> Get(a, "category", "General"),
         language |-> Get(a, "language", "en"),
         relatedLinks |-> proc[t].related,
         hasEmbedding |-> TRUE,
         status |-> "unread",
         estimatedReadTime |-> IF read > 1 THEN read ELSE 1,
         reminderStatus |-> Missing, nextReminderAt |-> NoTime,
         reminderCount |-> 0, reminderProfile |-> Missing]

\* The title of the fallback record: scraped.get("title", url).
FallbackTitle(scraped, url) == Get(scraped, "title", url)

\* The fallback_data dict of the except block.
FallbackData(t) ==
    [uid |-> pending[t].uid, task |-> t, url |-> pending[t].url,
     title |-> FallbackTitle(proc[t].scraped, pending[t].url),
     summary |-> "Cloud processing error",
     tags |-> <<"Processing Failed">>,
     category |-> "Uncategorized",
     language |-> Missing,
     relatedLinks |-> {},
     hasEmbedding |-> FALSE,
     status |-> "unread",
     estimatedReadTime |-> 0,
     reminderStatus |-> Missing, nextReminderAt |-> NoTime,
     reminderCount |-> 0, reminderProfile |-> Missing]

\* Variant of set_reminder that leaves the repetition count as it is.
set_reminder_keeps_count(ls, link_id, due, profile) ==
    [ls EXCEPT ![link_id] = [@ EXCEPT !.reminderStatus = "pending",
                                      !.nextReminderAt = Ms(ToMs(due)),
                                      !.reminderProfile = profile]]

\* set_reminder: one update of the four reminder fields; the due time is
\* stored as int(reminder_time.timestamp() * 1000).
set_reminder(ls, link_id, due, profile) ==
    [ls EXCEPT ![link_id] = [@ EXCEPT !.reminderStatus = "pending",
                                      !.nextReminderAt = Ms(ToMs(due)),
                                      !.reminderCount = 0,
                                      !.reminderProfile = profile]]

\* _format_success_message raises TypeError on `"Recipe" in category` when
\* category is None.
FormatRaises(link_data) == link_data.category = Null

Message(to, kind, lang, task) == [to |-> to, kind |-> kind, lang |-> lang, task |-> task]

\* send_whatsapp_message: the attempt is recorded; Twilio errors are swallowed.
Send(to, kind, lang, task) == outbox' = Append(outbox, Message(to, kind, lang, task))

(* -------------------------------------------------------- whatsapp_webhook *)

\* find_user_by_phone: the ids matching the first (field, value) query that
\* matches anything; {} when the function returns None.
find_user_by_phone(from) ==
    LET clean == Digits(from)
        q1 == {u \in UIDs : users[u].phone_number = WithPlus(clean)}
        q2 == {u \in UIDs : users[u].phone_number = clean}
        q3 == {u \in UIDs : users[u].phoneNumber = WithPlus(clean)}
        q4 == {u \in UIDs : users[u].phoneNumber = clean}
    IN  IF q1 # {} THEN q1 ELSE IF q2 # {} THEN q2 ELSE IF q3 # {} THEN q3 ELSE q4

Resp(from, body, code, result) == [from |-> from, body |-> body, code |-> code, result |-> result]

\* Payload without From/Body: 400, nothing else happens.
WebhookBadPayload ==
    /\ msgs < MaxMsgs
    /\ msgs' = msgs + 1
    /\ lastResp' = Resp(Null, <<>>, 400, "Invalid payload")
    /\ UNCHANGED <<users, links, pending, proc, outbox, now, sweeps, call>>

\* A Firestore call of the webhook raises: every such call precedes the
\* handler's first effect, so the request ends 500 with nothing changed.
WebhookRaises ==
    /\ msgs < MaxMsgs
    /\ lastResp' = Resp(Null, <<>>, 500, "Internal error")
    /\ msgs' = msgs + 1
    /\ UNCHANGED <<users, links, pending, proc, outbox, now, sweeps, call>>

\* Variant of the rejection that queues the message of an unrecognised sender
\* instead of answering it.
WebhookRejectQueued(from, body) ==
    /\ pending' = Append(pending, PendingDoc("u1", FirstUrl(body), from, body))
    /\ proc' = Append(proc, NewProc)
    /\ lastResp' = Resp(from, body, 403, "User not found")
    /\ UNCHANGED <<users, links, outbox, now>>

\* Unrecognised sender: one localized reply, 403.
WebhookReject(from, body) ==
    /\ Send(from, "not_recognized", IF is_hebrew(body) THEN "he" ELSE "en", 0)
    /\ lastResp' = Resp(from, body, 403, "User not found")
    /\ UNCHANGED <<users, links, pending, proc, now>>

\* Variant of the command branch that answers 200 without sending anything.
WebhookCommandSilent(uid, from, body) ==
    /\ lastResp' = Resp(from, body, 200, "success")
    /\ UNCHANGED <<users, links, pending, proc, outbox, now>>

\* profile = "spaced" if payload.body.strip() == "2" else "smart"
CommandProfile(body) == IF body = <<"2">> THEN "spaced" ELSE "smart"

\* Recognised sender, no URL: reminder menu, reminder on the last saved link,
\* "no previous link", or help.
WebhookCommand(uid, from, body) ==
    LET lang == IF is_hebrew(body) THEN "he" ELSE "en"
        msg_lower == LowerAll(body)
        days == handle_reminder_intent(body)
        last == users[uid].lastSavedLinkId
        profile == CommandProfile(body)
    IN  IF msg_lower = <<"reminder">> \/ msg_lower = <<HeReminder>>
        THEN /\ Send(from, "menu", IF msg_lower = <<HeReminder>> THEN "he" ELSE lang, 0)
             /\ lastResp' = Resp(from, body, 200, "success")
             /\ UNCHANGED <<users, links, pending, proc, now>>
        ELSE IF days # NoIntent /\ last # NoLink /\ last \in LinkIds
        THEN /\ links' = set_reminder(links, last, now + days, profile)
             /\ Send(from, "reminder_set", lang, 0)
             /\ lastResp' = Resp(from, body, 200, "success")
             /\ UNCHANGED <<users, pending, proc, now>>
        ELSE IF days # NoIntent
        THEN /\ Send(from, "no_previous_link", lang, 0)
             /\ lastResp' = Resp(from, body, 200, "No context")
             /\ UNCHANGED <<users, links, pending, proc, now>>
        ELSE /\ Send(from, "help", lang, 0)
             /\ lastResp' = Resp(from, body, 200, "success")
             /\ UNCHANGED <<users, links, pending, proc, now>>

\* Variant of the queueing branch that handles the reminder phrase of the
\* message at once, on the last saved link, before queueing the URL.
WebhookEnqueueEager(uid, from, body) ==
    LET days == handle_reminder_intent(body)
        last == users[uid].lastSavedLinkId
    IN  /\ pending' = Append(pending, PendingDoc(uid, FirstUrl(body), from, body))
        /\ proc' = Append(proc, NewProc)
        /\ lastResp' = Resp(from, body, 200, "queued")
        /\ IF days # NoIntent
           THEN Send(from, "reminder_set", "en", 0)
           ELSE UNCHANGED outbox
        /\ IF days # NoIntent /\ last \in LinkIds
           THEN links' = set_reminder(links, last, now + days, "smart")
           ELSE UNCHANGED links
        /\ UNCHANGED <<users, now>>

\* Recognised sender with a URL: one queued work item, immediate 200.
WebhookEnqueue(uid, from, body) ==
    /\ pending' = Append(pending, PendingDoc(uid, FirstUrl(body), from, body))
    /\ proc' = Append(proc, NewProc)
    /\ lastResp' = Resp(from, body, 200, "queued")
    /\ UNCHANGED <<users, links, outbox, now>>

whatsapp_webhook(from, body) ==
    LET found == find_user_by_phone(from)
    IN  IF found = {} THEN WebhookReject(from, body)
        ELSE \E uid \in found :
                IF FirstUrl(body) = Null THEN WebhookCommand(uid, from, body)
                ELSE WebhookEnqueue(uid, from, body)

Webhook ==
    /\ msgs < MaxMsgs
    /\ msgs' = msgs + 1
    /\ \E from \in Senders, body \in Bodies : whatsapp_webhook(from, body)
    /\ UNCHANGED <<sweeps, call>>


(* ------------------------------------------------------------ graph service *)

MaxCandidates == 2
MaxRelations == 2

SeqsUpTo(S, n) == UNION {[1..k -> S] : k \in 0..n}

\* new_link_id="pending": the placeholder passed before the document has an
\* id; it equals no document id.
PendingId == NoLink

\* vector_query.get(): raises, or returns the owner's documents that carry a
\* vector, nearest first (the corpus stays below the limit of 10).
Retrievals(corpus) ==
    {[raises |-> TRUE, ids |-> <<>>]}
    \cup {[raises |-> FALSE, ids |-> s] :
            s \in {q \in SeqsUpTo(corpus, MaxCandidates) :
                     /\ Range(q) = corpus
                     /\ \A i, j \in 1..Len(q) : q[i] = q[j] => i = j}}

\* One element of the JSON list of the verification response: an object whose
\* "id" is a document id or is missing (id = NoLink), or a value that is no
\* object.
Rel(id) == [obj |-> TRUE, id |-> id]
NotObj == [obj |-> FALSE, id |-> NoLink]
Entries(ids) == {Rel(i) : i \in ids \cup {NoLink}} \cup {NotObj}

\* What the verification call does: no client configured, generate_content
\* raises, response.text is no JSON, the JSON value is no list, or a list.
LlmFailures == {"no_client", "raises", "bad_json"}
LlmOutcomes(ids) ==
    {[kind |-> k, rels |-> <<>>] : k \in LlmFailures \cup {"not_list"}}
    \cup {[kind |-> "list", rels |-> r] : r \in SeqsUpTo(Entries(ids), MaxRelations)}

\* Nothing retrieved, and a verification that names nothing.
NoRetrieval == [raises |-> FALSE, ids |-> <<>>]
NoLlm == [kind |-> "list", rels |-> <<>>]

\* The verification outcomes to consider after a retrieval: the model is
\* called only when something was retrieved.
LlmOutcomesAfter(retrieval, ids) ==
    IF retrieval.raises \/ retrieval.ids = <<>> THEN {NoLlm} ELSE LlmOutcomes(ids)

\* _verify_relationships_with_llm: [] without candidates, without a client
\* and on any exception; otherwise json.loads(response.text) as it is.
verify_relationships_with_llm(candidates, llm) ==
    IF candidates = <<>> \/ llm.kind \in LlmFailures
    THEN [islist |-> TRUE, rels |-> <<>>]
    ELSE [islist |-> llm.kind = "list", rels |-> llm.rels]

\* `for rel in relations: rel.get("id")` raises when the value is no list of
\* objects.
FormatRaisesOn(relations) ==
    \/ ~relations.islist
    \/ \E i \in 1..Len(relations.rels) : ~relations.rels[i].obj

\* Variant that formats every relation the verification pass returned,
\* without looking it up among the candidates.
find_related_links_unfiltered(new_link_id, retrieval, llm) ==
    IF retrieval.raises
    THEN <<>>
    ELSE LET relations == verify_relationships_with_llm(retrieval.ids, llm)
         IN  IF FormatRaisesOn(relations)
             THEN <<>>
             ELSE [i \in 1..Len(relations.rels) |-> relations.rels[i].id]

\* GraphService.find_related_links: the ids of the returned entries, in order.
find_related_links(new_link_id, retrieval, llm) ==
    IF retrieval.raises
    THEN <<>>
    ELSE LET candidates == SelectSeq(retrieval.ids, LAMBDA d : d # new_link_id)
             relations == verify_relationships_with_llm(candidates, llm)
             kept == SelectSeq(relations.rels, LAMBDA r : r.id \in Range(candidates))
         IN  IF candidates = <<>> \/ FormatRaisesOn(relations)
             THEN <<>>
             ELSE [i \in 1..Len(kept) |-> kept[i].id]

\* The call ended in its except block, or verification gave up.
GraphFailed(new_link_id, retrieval, llm) ==
    \/ retrieval.raises
    \/ /\ SelectSeq(retrieval.ids, LAMBDA d : d # new_link_id) # <<>>
       /\ \/ llm.kind \in LlmFailures
          \/ FormatRaisesOn([islist |-> llm.kind = "list", rels |-> llm.rels])

(* ------------------------------------------------ process_link_background *)

Goto(t, pc) == proc' = [proc EXCEPT ![t].pc = pc]

\* One more failed stage, counted up to 2.
Bump(n) == IF n < 2 THEN n + 1 ELSE 2

\* Variant of the exception path that re-runs the pipeline from the first
\* stage instead of entering the except handler.
RaiseRetry(t, isStage) ==
    proc' = [proc EXCEPT ![t].pc = "set_scraping",
                         ![t].stageFails = IF isStage THEN Bump(@) ELSE @,
                         ![t].otherFail = @ \/ ~isStage]

\* An exception inside the try block: control moves to the except handler,
\* which reads only `scraped`, `url`, `uid`, `from_number` and the exception;
\* the other locals are dead from here on and are dropped.
Raise(t, isStage) ==
    proc' = [proc EXCEPT ![t] = [NewProc EXCEPT
                !.pc = "mark_failed",
                !.scraped = proc[t].scraped,
                !.stages = proc[t].stages,
                !.stageFails = IF isStage THEN Bump(proc[t].stageFails) ELSE 0,
                !.otherFail = ~isStage]]

\* An exception outside the try block or inside the except handler, or the
\* platform timeout: the invocation ends without running any handler.
Crash(t) ==
    proc' = [proc EXCEPT ![t] = [NewProc EXCEPT !.pc = "crashed", !.otherFail = TRUE]]

\* Normal end of the invocation: the locals go out of scope.
Finish(t, pc) ==
    proc' = [proc EXCEPT ![t] = [NewProc EXCEPT !.pc = pc,
                                                !.stageFails = proc[t].stageFails,
                                                !.graphFailed = proc[t].graphFailed,
                                                !.otherFail = proc[t].otherFail]]

SetStatus(t, status) == pending' = [pending EXCEPT ![t].status = status]

\* ref.update({"status": "processing", ...}) -- before the try block.
Start(t) ==
    /\ proc[t].pc = "start"
    /\ \/ /\ SetStatus(t, "processing")
          /\ Goto(t, "set_scraping")
       \/ /\ Crash(t)
          /\ UNCHANGED pending
    /\ UNCHANGED <<users, links, outbox, lastResp, msgs, now>>

\* A ref.update({"status": ...}) inside the try block.
StatusStep(t, at, status, next) ==
    /\ proc[t].pc = at
    /\ \/ /\ SetStatus(t, status)
          /\ Goto(t, next)
       \/ /\ Raise(t, FALSE)
          /\ UNCHANGED pending
    /\ UNCHANGED <<users, links, outbox, lastResp, msgs, now>>

SetScraping(t) == StatusStep(t, "set_scraping", "scraping", "scrape")

\* scraped = scrape_url(url, original_body): returns a result, empty on failure.
Scrape(t) ==
    /\ proc[t].pc = "scrape"
    /\ \E r \in ScrapeResults :
          proc' = [proc EXCEPT ![t].pc = "set_analyzing",
                               ![t].scraped = r,
                               ![t].stages = Append(@, "scrape"),
                               ![t].stageFails = IF r = EmptyScrape THEN Bump(@) ELSE @]
    /\ UNCHANGED <<users, links, pending, outbox, lastResp, msgs, now>>

SetAnalyzing(t) == StatusStep(t, "set_analyzing", "analyzing", "get_tags")

\* existing_tags = get_user_tags(uid): a read of the links collection.
GetTags(t) ==
    /\ proc[t].pc = "get_tags"
    /\ \/ Goto(t, "analyze")
       \/ Raise(t, FALSE)
    /\ UNCHANGED <<users, links, pending, outbox, lastResp, msgs, now>>

\* analysis = claude.analyze_text(...), then the isinstance validation, which
\* raises ValueError when the result is still no dict.
Analyze(t) ==
    /\ proc[t].pc = "analyze"
    /\ \E outcome \in ModelOutcomes :
          LET a == ValidateAnalysis(analyze_text(outcome))
          IN  IF a.type = "dict"
              THEN proc' = [proc EXCEPT ![t].pc = "embed",
                                        ![t].analysis = a.obj,
                                        ![t].stages = Append(@, "analyze"),
                                        ![t].stageFails = IF outcome = "raises"
                                                          THEN Bump(@) ELSE @]
              ELSE Raise(t, TRUE)
    /\ UNCHANGED <<users, links, pending, outbox, lastResp, msgs, now>>

\* embedding = claude.embed_text(embedding_text): a vector, or an exception.
\* (ClaudeService in ai_service.py defines no embed_text; the call is taken
\* as one that may return or raise.)
Embed(t) ==
    /\ proc[t].pc = "embed"
    /\ \/ proc' = [proc EXCEPT ![t].pc = "graph", ![t].stages = Append(@, "embed")]
       \/ Raise(t, TRUE)
    /\ UNCHANGED <<users, links, pending, outbox, lastResp, msgs, now>>

\* Nearest-neighbour candidates: the owner's documents that carry a vector.
Candidates(uid) == {i \in LinkIds : links[i].uid = uid /\ links[i].hasEmbedding}

\* Variant of the graph stage that does not wait for the embedding: it may
\* run as soon as the analysis has returned.
GraphBeforeEmbed(t) ==
    /\ proc[t].pc \in {"embed", "graph"}
    /\ proc' = [proc EXCEPT ![t].pc = "set_saving",
                            ![t].stages = Append(@, "graph")]
    /\ UNCHANGED <<users, links, pending, outbox, lastResp, msgs, now>>

\* Variant of the graph stage in which a failed retrieval or verification
\* propagates as an exception into the handler of process_link_background.
GraphFailureRaises(t) ==
    /\ proc[t].pc = "graph"
    /\ \E retrieval \in Retrievals(Candidates(pending[t].uid)) :
       \E llm \in LlmOutcomesAfter(retrieval, LinkIds) :
          IF GraphFailed(PendingId, retrieval, llm)
          THEN proc' = [proc EXCEPT ![t] = [NewProc EXCEPT
                          !.pc = "mark_failed",
                          !.scraped = proc[t].scraped,
                          !.stages = Append(proc[t].stages, "graph"),
                          !.stageFails = Bump(proc[t].stageFails),
                          !.graphFailed = TRUE]]
          ELSE proc' = [proc EXCEPT
                          ![t].pc = "set_saving",
                          ![t].related = Range(find_related_links(PendingId, retrieval, llm)),
                          ![t].stages = Append(@, "graph")]
    /\ UNCHANGED <<users, links, pending, outbox, lastResp, msgs, now>>

\* related_links = graph_service.find_related_links(new_link_id="pending",
\* ...): the verified candidates, or [] when retrieval or verification fails.
Graph(t) ==
    /\ proc[t].pc = "graph"
    /\ \E retrieval \in Retrievals(Candidates(pending[t].uid)) :
       \E llm \in LlmOutcomesAfter(retrieval, LinkIds) :
          LET failed == GraphFailed(PendingId, retrieval, llm)
              verified == Range(find_related_links(PendingId, retrieval, llm))
          IN  proc' = [proc EXCEPT ![t].pc = "set_saving",
                                   ![t].related = verified,
                                   ![t].stages = Append(@, "graph"),
                                   ![t].graphFailed = failed,
                                   ![t].stageFails = IF failed THEN Bump(@) ELSE @]
    /\ UNCHANGED <<users, links, pending, outbox, lastResp, msgs, now>>

SetSaving(t) == StatusStep(t, "set_saving", "saving", "save")

\* Variant of the save that also records the new item in the relatedLinks of
\* every item it is related to.
SaveBacklinks(t) ==
    /\ proc[t].pc = "save"
    /\ \/ /\ links' = Append([i \in LinkIds |->
                              IF i \in proc[t].related
                              THEN [links[i] EXCEPT !.relatedLinks = @ \cup {Len(links) + 1}]
                              ELSE links[i]],
                           LinkData(t))
          /\ proc' = [proc EXCEPT ![t].pc = "update_user", ![t].link_id = Len(links) + 1]
       \/ /\ Raise(t, FALSE)
          /\ UNCHANGED links
    /\ UNCHANGED <<users, pending, outbox, lastResp, msgs, now>>

\* link_id = save_link_to_firestore(uid, link_data)
Save(t) ==
    /\ proc[t].pc = "save"
    /\ \/ /\ links' = Append(links, LinkData(t))
          /\ proc' = [proc EXCEPT ![t].pc = "update_user", ![t].link_id = Len(links) + 1]
       \/ /\ Raise(t, FALSE)
          /\ UNCHANGED links
    /\ UNCHANGED <<users, pending, outbox, lastResp, msgs, now>>

\* users/{uid}.update({'lastSavedLinkId': link_id})
UpdateUser(t) ==
    /\ proc[t].pc = "update_user"
    /\ \/ /\ users' = [users EXCEPT ![pending[t].uid].lastSavedLinkId = proc[t].link_id]
          /\ Goto(t, "reminder")
       \/ /\ Raise(t, FALSE)
          /\ UNCHANGED users
    /\ UNCHANGED <<links, pending, outbox, lastResp, msgs, now>>

\* profile = "spaced" if "2" in original_body else "smart"
TaskProfile(body) == IF \E i \in 1..Len(body) : HasDigit2(body[i]) THEN "spaced" ELSE "smart"

\* reminder_time = handle_reminder_intent(original_body); set_reminder if any.
Reminder(t) ==
    /\ proc[t].pc = "reminder"
    /\ LET days == handle_reminder_intent(pending[t].body)
       IN  IF days = NoIntent
           THEN Goto(t, "format") /\ UNCHANGED links
           ELSE \/ /\ links' = set_reminder(links, proc[t].link_id, now + days,
                                            TaskProfile(pending[t].body))
                   /\ Goto(t, "format")
                \/ /\ Raise(t, FALSE)
                   /\ UNCHANGED links
    /\ UNCHANGED <<users, pending, outbox, lastResp, msgs, now>>

\* msg = _format_success_message(link_data, ...)
Format(t) ==
    /\ proc[t].pc = "format"
    /\ IF FormatRaises(LinkData(t)) THEN Raise(t, FALSE) ELSE Goto(t, "send")
    /\ UNCHANGED <<users, links, pending, outbox, lastResp, msgs, now>>

\* send_whatsapp_message(from_number, msg)
SendSaved(t) ==
    /\ proc[t].pc = "send"
    /\ Send(pending[t].fromNumber, "saved", Get(proc[t].analysis, "language", "en"), t)
    /\ Goto(t, "delete")
    /\ UNCHANGED <<users, links, pending, lastResp, msgs, now>>

\* ref.delete()
Delete(t) ==
    /\ proc[t].pc = "delete"
    /\ \/ /\ pending' = [pending EXCEPT ![t].exists = FALSE]
          /\ Finish(t, "done")
       \/ /\ Raise(t, FALSE)
          /\ UNCHANGED pending
    /\ UNCHANGED <<users, links, outbox, lastResp, msgs, now>>

\* Variant of the handler's status write that puts the entry back in the
\* queue for another attempt.
MarkFailedRequeue(t) ==
    /\ proc[t].pc = "mark_failed"
    /\ pending' = [pending EXCEPT ![t].status = "queued", ![t].error = ErrorText]
    /\ Goto(t, "save_fallback")
    /\ UNCHANGED <<users, links, outbox, lastResp, msgs, now>>

\* except: ref.update({"status": "failed", "error": str(e)})
MarkFailed(t) ==
    /\ proc[t].pc = "mark_failed"
    /\ \/ /\ pending' = [pending EXCEPT ![t].status = "failed", ![t].error = ErrorText]
          /\ Goto(t, "save_fallback")
       \/ /\ Crash(t)
          /\ UNCHANGED pending
    /\ UNCHANGED <<users, links, outbox, lastResp, msgs, now>>

\* Variant of the fallback save that writes nothing and moves on.
SaveFallbackLost(t) ==
    /\ proc[t].pc = "save_fallback"
    /\ Goto(t, "send_fallback")
    /\ UNCHANGED <<users, links, pending, outbox, lastResp, msgs, now>>

\* save_link_to_firestore(uid, fallback_data)
SaveFallback(t) ==
    /\ proc[t].pc = "save_fallback"
    /\ \/ /\ links' = Append(links, FallbackData(t))
          /\ Goto(t, "send_fallback")
       \/ /\ Crash(t)
          /\ UNCHANGED links
    /\ UNCHANGED <<users, pending, outbox, lastResp, msgs, now>>

\* send_whatsapp_message(from_number, "Saved: {url} ... encountered an issue")
SendFallback(t) ==
    /\ proc[t].pc = "send_fallback"
    /\ Send(pending[t].fromNumber, "saved_limited", "en", t)
    /\ Finish(t, "failed")
    /\ UNCHANGED <<users, links, pending, lastResp, msgs, now>>

\* timeout_sec=300 on the trigger: the platform ends an invocation that is
\* still running, wherever it is; no handler runs.
Timeout(t) ==
    /\ proc[t].pc \notin Terminal
    /\ Crash(t)
    /\ UNCHANGED <<users, links, pending, outbox, lastResp, msgs, now>>

process_link_background(t) ==
    \/ Start(t) \/ SetScraping(t) \/ Scrape(t) \/ SetAnalyzing(t) \/ GetTags(t)
    \/ Analyze(t) \/ Embed(t) \/ Graph(t) \/ SetSaving(t) \/ Save(t)
    \/ UpdateUser(t) \/ Reminder(t) \/ Format(t) \/ SendSaved(t) \/ Delete(t)
    \/ MarkFailed(t) \/ SaveFallback(t) \/ SendFallback(t) \/ Timeout(t)

Process ==
    /\ \E t \in Tasks : process_link_background(t)
    /\ UNCHANGED <<sweeps, call>>

(* ------------------------------------------------------ reminder sweeps *)

\* Sequential runs of run_reminder_check explored.
MaxSweeps == 1

\* Reminder commands explored while sweeps run.
MaxCmds == 1

\* Raising calls explored over all runs of run_reminder_check.
MaxFaults == 1

\* .limit(10) of the due query.
BatchLimit == 10

\* Size of the largest set of due items of one user: one more than a run
\* takes.
MaxDue == BatchLimit + 1

\* Jumps of the clock explored: one per run.
MaxTicks == MaxSweeps

\* new_reminder_count >= 3
MaxStage == 3

\* Days the clock advances in one jump: long enough for a re-armed item to
\* become due again.
TickDays == 30

\* The reminder profiles stored on items.
Profiles == {"smart", "spaced", "spaced-3", "spaced-5", "spaced-7", "spaced-4", "spaced-x"}

\* profile.startswith("spaced")
IsSpaced(profile) == profile \in Profiles \ {"smart"}

\* start_days: int(profile.split("-")[1]) when the profile has a "-" and the
\* suffix is a number, 3 otherwise.
StartDays(profile) ==
    CASE profile = "spaced-3" -> 3
      [] profile = "spaced-5" -> 5
      [] profile = "spaced-7" -> 7
      [] profile = "spaced-4" -> 4
      [] OTHER -> 3

\* An interval table that ignores the profile.
SmartDays(reminder_count, profile) ==
    CASE reminder_count = 0 -> 1
      [] reminder_count = 1 -> 7
      [] reminder_count = 2 -> 30
      [] OTHER -> 90

\* The day offset calculate_next_reminder adds to the current time.
IntervalDays(reminder_count, profile) ==
    IF IsSpaced(profile)
    THEN LET start_days == StartDays(profile)
         IN  IF reminder_count = 0 THEN start_days
             ELSE IF start_days = 3
                  THEN (IF reminder_count = 1 THEN 5
                        ELSE IF reminder_count = 2 THEN 7 ELSE 90)
             ELSE IF start_days = 5
                  THEN (IF reminder_count = 1 THEN 7
                        ELSE IF reminder_count = 2 THEN 14 ELSE 90)
             ELSE IF start_days = 7
                  THEN (IF reminder_count = 1 THEN 14
                        ELSE IF reminder_count = 2 THEN 30 ELSE 90)
             ELSE 90
    ELSE CASE reminder_count = 0 -> 1
           [] reminder_count = 1 -> 7
           [] reminder_count = 2 -> 30
           [] OTHER -> 90

\* calculate_next_reminder, with the current time t (datetime.now()) made an
\* argument.
calculate_next_reminder(reminder_count, profile, t) == t + IntervalDays(reminder_count, profile)

\* settings.get('reminders_enabled', settings.get('remindersEnabled', True))
RemindersEnabled(settings) ==
    Get(settings, "reminders_enabled", Get(settings, "remindersEnabled", TRUE))

SettingsKeys == {"reminders_enabled", "remindersEnabled"}

\* A settings dict holding the given keys.
Settings(present, enabled) ==
    [present |-> present, v |-> [reminders_enabled |-> enabled, remindersEnabled |-> enabled]]

\* A users/{uid} document as the sweep reads it.
SweepUserDoc(phone, settings, last) ==
    [phone_number |-> phone, phoneNumber |-> Missing, lastSavedLinkId |-> last,
     settings |-> settings]

\* user_data.get('phone_number') or user_data.get('phoneNumber')
UserPhone(user_data) ==
    IF Truthy(user_data.phone_number) THEN user_data.phone_number
    ELSE user_data.phoneNumber

\* f"whatsapp:{phone_number}"
WhatsApp(phone) == CASE phone = "+16462440305" -> KnownSender
                     [] phone = "+19999999999" -> UnknownSender
                     [] OTHER -> "whatsapp:"

\* The users collection of the sweep scenarios, in document order: u1 has
\* no settings (reminders default to enabled), u2 has reminders disabled, u3
\* has no phone number, u4 is enabled through the camelCase key.
SweepUIDs == <<"u1", "u2", "u3", "u4">>

SweepUsers(last) ==
    [u \in Range(SweepUIDs) |->
        CASE u = "u1" -> SweepUserDoc("+16462440305", Settings({}, TRUE), last)
          [] u = "u2" -> SweepUserDoc("+19999999999", Settings({"reminders_enabled"}, FALSE), NoLink)
          [] u = "u3" -> SweepUserDoc("", Settings({}, TRUE), NoLink)
          [] OTHER -> SweepUserDoc("+19999999999", Settings({"remindersEnabled"}, TRUE), NoLink)]

\* A stored link with the given reminder fields.
SweepLink(uid, category, status, due, count, profile) ==
    [uid |-> uid, task |-> 0, url |-> Url1, title |-> "AI title",
     summary |-> "AI summary", tags |-> <<"ai">>, category |-> category,
     language |-> "en", relatedLinks |-> {}, hasEmbedding |-> TRUE,
     status |-> "unread", estimatedReadTime |-> 1,
     reminderStatus |-> status, nextReminderAt |-> due,
     reminderCount |-> count, reminderProfile |-> profile]

\* The day the sweep scenarios start on; day 0 is in the past.
Day0 == 1

\* Scenario "mixed": due, legacy, not yet due, unarmed, and other owners.
MixedLinks ==
    << SweepLink("u1", "Tech", "pending", Ms(ToMs(0)), 0, "smart"),
       SweepLink("u1", "Tech", "pending", Timestamp(0), 2, "spaced"),
       SweepLink("u1", "Recipe", "pending", Timestamp(40), 1, "spaced-5"),
       SweepLink("u1", "Tech", Missing, NoTime, 0, Missing),
       SweepLink("u2", "Tech", "pending", Ms(ToMs(0)), 0, "smart"),
       SweepLink("u3", "Tech", "pending", Ms(ToMs(0)), 0, "smart"),
       SweepLink("u4", "Tech", "pending", Ms(ToMs(Day0)), 1, "spaced-7") >>

\* Scenario "batch": more due items of one user than the query returns.
BatchLinks == [i \in 1..MaxDue |-> SweepLink("u1", "Tech", "pending", Ms(ToMs(0)), 0, "smart")]

\* Scenario "null category": a due record saved with category None.
NullCategoryLinks ==
    << SweepLink("u1", Null, "pending", Ms(ToMs(0)), 0, "smart"),
       SweepLink("u4", "Tech", "pending", Ms(ToMs(0)), 0, "smart") >>

Scenarios ==
    { [links |-> MixedLinks, users |-> SweepUsers(2)],
      [links |-> NullCategoryLinks, users |-> SweepUsers(NoLink)] }

\* The report dict.
NewReport == [users_checked |-> 0, users_with_reminders_enabled |-> 0,
              reminders_found |-> 0, reminders_sent |-> 0, errors |-> <<>>]

\* Locals of one run_reminder_check invocation: the users still to visit,
\* the current user, now_ms, the items still to clean and to fire, the
\* report, the items this run has handled, the number of calls that failed
\* in it and, of those, the sends that Twilio did not accept.
NewSweep == [pc |-> "next_user", queue |-> SweepUIDs, uid |-> "", phone |-> "",
             now_ms |-> 0, clean |-> <<>>, due |-> <<>>, report |-> NewReport,
             notified |-> <<>>, faults |-> 0, lost |-> 0]

SweepEnded == {"returned", "raised"}

Sweeps == 1..Len(sweeps)

RECURSIVE SumFaults(_)
\* The raising calls so far, over all runs.
SumFaults(ss) == IF ss = <<>> THEN 0 ELSE Head(ss).faults + SumFaults(Tail(ss))

\* Another call may raise.
MayRaise == SumFaults(sweeps) < MaxFaults

\* The ids of S in ascending order of (due value, id), as the query returns
\* them.
SortedIds(S, ls) ==
    LET Before(j, i) == \/ ls[j].nextReminderAt.at < ls[i].nextReminderAt.at
                        \/ ls[j].nextReminderAt.at = ls[i].nextReminderAt.at /\ j < i
    IN  [k \in 1..Cardinality(S) |->
            CHOOSE i \in S : Cardinality({j \in S : Before(j, i)}) = k - 1]

\* links_ref.where('reminderStatus', '==', 'pending') for one user.
PendingOf(uid, ls) ==
    {i \in 1..Len(ls) : ls[i].uid = uid /\ ls[i].reminderStatus = "pending"}

\* A due query without the time bound.
DueOfAnyTime(uid, now_ms, ls) ==
    {i \in PendingOf(uid, ls) : ls[i].nextReminderAt.kind = "int"}

\* ... .where('nextReminderAt', '<=', now_ms): a numeric bound matches
\* numeric values only.
DueOf(uid, now_ms, ls) ==
    {i \in PendingOf(uid, ls) :
        ls[i].nextReminderAt.kind = "int" /\ ls[i].nextReminderAt.at <= now_ms}

\* A query without a limit.
NoLimit(seq, n) == seq

\* The first n elements of a sequence: .limit(n).
Limit(seq, n) == SubSeq(seq, 1, IF Len(seq) < n THEN Len(seq) ELSE n)

\* link_doc.to_dict() as read by the query.
Snapshot(i, ls) == [id |-> i, title |-> ls[i].title, category |-> ls[i].category,
                    reminderCount |-> ls[i].reminderCount,
                    reminderProfile |-> ls[i].reminderProfile]

\* The sweep record after a change of some fields, one raising call counted.
Faulted(sw) == [sw EXCEPT !.faults = @ + 1]

\* The sweep's exception escapes run_reminder_check: nothing is returned.
SweepRaise(s) ==
    sweeps' = [sweeps EXCEPT ![s] = [NewSweep EXCEPT !.pc = "raised",
                                                     !.uid = sweeps[s].uid,
                                                     !.lost = sweeps[s].lost,
                                                     !.report = sweeps[s].report,
                                                     !.notified = sweeps[s].notified,
                                                     !.faults = sweeps[s].faults + 1]]

\* check_reminders / force_check_reminders: a run starts with
\* users = users_ref.get(); runs are taken one after the other.
StartSweep ==
    /\ Len(sweeps) < MaxSweeps
    /\ \A s \in Sweeps : sweeps[s].pc \in SweepEnded
    /\ \/ sweeps' = Append(sweeps, NewSweep)
       \/ /\ MayRaise
          /\ sweeps' = Append(sweeps, [NewSweep EXCEPT !.pc = "raised", !.faults = 1])
    /\ UNCHANGED <<users, links, pending, proc, outbox, lastResp, msgs, now, call>>

\* for user_doc in users: the enabled and phone checks, links_ref, now_ms.
NextUser(s) ==
    /\ sweeps[s].pc = "next_user"
    /\ LET sw == sweeps[s] IN
       IF sw.queue = <<>>
       THEN sweeps' = [sweeps EXCEPT ![s] = [NewSweep EXCEPT
                          !.pc = "returned", !.queue = <<>>,
                          !.report = sw.report, !.notified = sw.notified,
                          !.faults = sw.faults, !.lost = sw.lost]]
       ELSE LET uid == Head(sw.queue)
                user_data == users[uid]
                enabled == RemindersEnabled(user_data.settings)
                phone == UserPhone(user_data)
                rep == [sw.report EXCEPT
                          !.users_checked = @ + 1,
                          !.users_with_reminders_enabled = IF enabled THEN @ + 1 ELSE @]
            IN  sweeps' = [sweeps EXCEPT ![s] =
                   IF enabled /\ Truthy(phone)
                   THEN [sw EXCEPT !.queue = Tail(@), !.report = rep, !.uid = uid,
                                   !.phone = phone, !.now_ms = ToMs(now),
                                   !.pc = "clean_query"]
                   ELSE [sw EXCEPT !.queue = Tail(@), !.report = rep]]
    /\ UNCHANGED <<users, links, pending, proc, outbox, lastResp, msgs, now, call>>

\* all_links_to_clean = links_ref.where(status == pending).get(): outside
\* any try block.
CleanQuery(s) ==
    /\ sweeps[s].pc = "clean_query"
    /\ LET sw == sweeps[s]
           legacy == {i \in PendingOf(sw.uid, links) :
                         links[i].nextReminderAt.kind = "timestamp"}
           todo == [k \in 1..Cardinality(legacy) |->
                      LET i == SortedIds(legacy, links)[k]
                      IN  [id |-> i, new_ms |-> ToMs(links[i].nextReminderAt.at)]]
       IN  \/ sweeps' = [sweeps EXCEPT ![s].clean = todo,
                                       ![s].pc = IF todo = <<>> THEN "query" ELSE "clean"]
           \/ /\ MayRaise
              /\ SweepRaise(s)
    /\ UNCHANGED <<users, links, pending, proc, outbox, lastResp, msgs, now, call>>

\* A cleanup that visits a legacy item without writing it.
CleanSkip(s) ==
    /\ sweeps[s].pc = "clean"
    /\ sweeps' = [sweeps EXCEPT ![s].clean = Tail(@),
                                ![s].pc = IF Tail(sweeps[s].clean) = <<>>
                                          THEN "query" ELSE "clean"]
    /\ UNCHANGED <<users, links, pending, proc, outbox, lastResp, msgs, now, call>>

\* l.reference.update({'nextReminderAt': new_ms}) for one legacy item.
CleanOne(s) ==
    /\ sweeps[s].pc = "clean"
    /\ LET sw == sweeps[s]
           c == Head(sw.clean)
       IN  \/ /\ links' = [links EXCEPT ![c.id].nextReminderAt = Ms(c.new_ms)]
              /\ sweeps' = [sweeps EXCEPT ![s].clean = Tail(@),
                                          ![s].pc = IF Tail(sw.clean) = <<>>
                                                    THEN "query" ELSE "clean"]
           \/ /\ MayRaise
              /\ SweepRaise(s)
              /\ UNCHANGED links
    /\ UNCHANGED <<users, pending, proc, outbox, lastResp, msgs, now, call>>

\* due_links = query.get() inside try: on failure the error is appended to
\* the report and the loop continues with the next user.
DueQuery(s) ==
    /\ sweeps[s].pc = "query"
    /\ LET sw == sweeps[s]
           ids == Limit(SortedIds(DueOf(sw.uid, sw.now_ms, links), links), BatchLimit)
           due_links == [k \in 1..Len(ids) |-> Snapshot(ids[k], links)]
       IN  \/ sweeps' = [sweeps EXCEPT
                ![s].due = due_links,
                ![s].report.reminders_found = @ + Len(due_links),
                ![s].pc = IF due_links = <<>> THEN "next_user" ELSE "fire"]
           \/ /\ MayRaise
              /\ sweeps' = [sweeps EXCEPT
                   ![s] = [Faulted(sw) EXCEPT !.report.errors = Append(@, "query"),
                                              !.pc = "next_user"]]
    /\ UNCHANGED <<users, links, pending, proc, outbox, lastResp, msgs, now, call>>

\* Building the message: `"Recipe" in category` raises TypeError for a
\* non-Hebrew title when category is None; this is outside the try block.
ReminderFormatRaises(link_data) ==
    ~is_hebrew(<<link_data.title>>) /\ link_data.category = Null

\* An update that never completes an item.
AdvanceNoCeiling(ls, link_data, t) ==
    [ls EXCEPT ![link_data.id] =
        [@ EXCEPT !.reminderCount = link_data.reminderCount + 1,
                  !.nextReminderAt = Ms(ToMs(calculate_next_reminder(
                        link_data.reminderCount + 1, link_data.reminderProfile, t)))]]

\* The update of a fired item: completed at the third notification, else the
\* next due time from calculate_next_reminder at the current time.
Advance(ls, link_data, t) ==
    LET new_reminder_count == link_data.reminderCount + 1
        profile == link_data.reminderProfile
        next_reminder == calculate_next_reminder(new_reminder_count, profile, t)
        next_reminder_ms == ToMs(next_reminder)
    IN  IF new_reminder_count >= MaxStage
        THEN [ls EXCEPT ![link_data.id] = [@ EXCEPT !.reminderStatus = "completed",
                                                    !.reminderCount = new_reminder_count,
                                                    !.nextReminderAt = NoTime]]
        ELSE [ls EXCEPT ![link_data.id] = [@ EXCEPT !.reminderCount = new_reminder_count,
                                                    !.nextReminderAt = Ms(next_reminder_ms)]]

\* One iteration of `for link_doc in due_links`: format, send, update.  The
\* send may fail inside send_whatsapp_message, which logs the Twilio error
\* and returns; the update may raise, which the except block records.
Fire(s) ==
    /\ sweeps[s].pc = "fire"
    /\ LET sw == sweeps[s]
           link_data == Head(sw.due)
           rest == [sw EXCEPT !.due = Tail(@),
                              !.pc = IF Tail(sw.due) = <<>> THEN "next_user" ELSE "fire"]
           sent == [rest EXCEPT !.report.reminders_sent = @ + 1,
                                !.notified = Append(@, link_data.id)]
       IN  IF ReminderFormatRaises(link_data)
           THEN SweepRaise(s) /\ UNCHANGED <<links, outbox>>
           ELSE \/ /\ Send(WhatsApp(sw.phone), "reminder",
                           IF is_hebrew(<<link_data.title>>) THEN "he" ELSE "en",
                           link_data.id)
                   /\ links' = Advance(links, link_data, now)
                   /\ sweeps' = [sweeps EXCEPT ![s] = sent]
                \/ /\ MayRaise
                   /\ UNCHANGED outbox
                   /\ links' = Advance(links, link_data, now)
                   /\ sweeps' = [sweeps EXCEPT ![s] = [Faulted(sent) EXCEPT !.lost = @ + 1]]
                \/ /\ Send(WhatsApp(sw.phone), "reminder",
                           IF is_hebrew(<<link_data.title>>) THEN "he" ELSE "en",
                           link_data.id)
                   /\ MayRaise
                   /\ UNCHANGED links
                   /\ sweeps' = [sweeps EXCEPT ![s] =
                         [Faulted(sent) EXCEPT !.report.errors = Append(@, "item")]]
    /\ UNCHANGED <<users, pending, proc, lastResp, msgs, now, call>>

run_reminder_check(s) ==
    \/ NextUser(s) \/ CleanQuery(s) \/ CleanOne(s) \/ DueQuery(s) \/ Fire(s)

SweepStep == \E s \in Sweeps : run_reminder_check(s)

\* Time passes between runs; a run itself takes no model time.
Tick ==
    /\ now < Day0 + MaxTicks * TickDays
    /\ \A s \in Sweeps : sweeps[s].pc \in SweepEnded
    /\ now' = now + TickDays
    /\ UNCHANGED <<users, links, pending, proc, outbox, lastResp, msgs, sweeps, call>>

\* The reminder commands a user sends for the last saved link.
CommandBodies == { <<"tomorrow">>, <<"2">> }

\* whatsapp_webhook on a reminder command of the known sender.
SweepCommand ==
    /\ msgs < MaxCmds
    /\ msgs' = msgs + 1
    /\ \E body \in CommandBodies : whatsapp_webhook(KnownSender, body)
    /\ UNCHANGED <<sweeps, call>>

(* ---------------------------------------------------------- specification *)

\* No direct call in progress.
NoCall == [fn |-> "none", text |-> <<>>, count |-> 0, profile |-> "", now |-> 0,
           done |-> FALSE, result |-> 0]

Init ==
    /\ users = [u \in UIDs |-> UserDoc("+16462440305")]
    /\ links = <<>>
    /\ pending = <<>>
    /\ proc = <<>>
    /\ outbox = <<>>
    /\ lastResp = Resp(Null, <<>>, 0, "none")
    /\ msgs = 0
    /\ now = 0
    /\ sweeps = <<>>
    /\ call = NoCall

Next == Webhook \/ WebhookBadPayload \/ WebhookRaises \/ Process

Spec == Init /\ [][Next]_vars


\* Stored items with reminders in various states, no work in the queue.
SweepInit ==
    /\ \E sc \in Scenarios : links = sc.links /\ users = sc.users
    /\ pending = <<>>
    /\ proc = <<>>
    /\ outbox = <<>>
    /\ lastResp = Resp(Null, <<>>, 0, "none")
    /\ msgs = 0
    /\ now = Day0
    /\ sweeps = <<>>
    /\ call = NoCall

SweepNext == StartSweep \/ SweepStep \/ Tick \/ SweepCommand

SweepSpec == SweepInit /\ [][SweepNext]_vars

\* Largest repetition count given to calculate_next_reminder.
MaxCount == 4

\* Current times the functions are called at.
Times == {0, Day0, Day0 + TickDays}

\* Texts given to handle_reminder_intent.
IntentTexts ==
    { <<>>, <<"1">>, <<"2">>, <<"3">>, <<"5">>, <<"12">>, <<"1", "2">>,
      <<"2", "things">>, <<"I", "said", "2", "things">>, <<"hello">>,
      <<"tomorrow">>, <<"Tomorrow", "2">>, <<"next", "week">>,
      <<"in", "2", "days">>, <<"in", "5", "days">>, <<HeTomorrow>>,
      <<HeIn, "3", HeDays>>, <<Url2>>, <<Url1, "2">>, <<Url2, "hello">>,
      <<UrlTomorrow>>, <<UrlTomorrow, "hello">>, <<UrlCaps>>,
      <<Url1, "tomorrow">>, <<UrlTomorrow, "next", "week">>,
      <<Url2, "in", "5", "days">> }

\* A call of handle_reminder_intent(text) at time t, not yet evaluated.
IntentCall(text, t) == [NoCall EXCEPT !.fn = "handle_reminder_intent", !.text = text, !.now = t]

\* A call of calculate_next_reminder(count, profile) at time t.
CalcCall(count, profile, t) ==
    [NoCall EXCEPT !.fn = "calculate_next_reminder", !.count = count,
                   !.profile = profile, !.now = t]

\* The calls of the two pure functions over the bounded inputs.
FnInit ==
    /\ \/ \E text \in IntentTexts, t \in Times : call = IntentCall(text, t)
       \/ \E count \in 0..MaxCount, profile \in Profiles, t \in Times :
             call = CalcCall(count, profile, t)
    /\ users = [u \in UIDs |-> UserDoc("+16462440305")]
    /\ links = <<>>
    /\ pending = <<>>
    /\ proc = <<>>
    /\ outbox = <<>>
    /\ lastResp = Resp(Null, <<>>, 0, "none")
    /\ msgs = 0
    /\ \E t \in Times : now = t /\ call.now = t
    /\ sweeps = <<>>

\* handle_reminder_intent(text): now + the day offset, or None.
ApplyIntent ==
    /\ call.fn = "handle_reminder_intent"
    /\ ~call.done
    /\ LET days == handle_reminder_intent(call.text)
       IN  call' = [call EXCEPT !.done = TRUE,
                                !.result = IF days = NoIntent THEN NoIntent ELSE now + days]
    /\ UNCHANGED <<users, links, pending, proc, outbox, lastResp, msgs, now, sweeps>>

\* calculate_next_reminder(count, profile).
ApplyCalc ==
    /\ call.fn = "calculate_next_reminder"
    /\ ~call.done
    /\ call' = [call EXCEPT !.done = TRUE,
                            !.result = calculate_next_reminder(call.count, call.profile, now)]
    /\ UNCHANGED <<users, links, pending, proc, outbox, lastResp, msgs, now, sweeps>>

FnNext == ApplyIntent \/ ApplyCalc

FnSpec == FnInit /\ [][FnNext]_vars

\* One user with more due items than a run takes, and no commands.
BatchInit ==
    /\ links = BatchLinks
    /\ users = SweepUsers(1)
    /\ pending = <<>>
    /\ proc = <<>>
    /\ outbox = <<>>
    /\ lastResp = Resp(Null, <<>>, 0, "none")
    /\ msgs = 0
    /\ now = Day0
    /\ sweeps = <<>>
    /\ call = NoCall

BatchNext == StartSweep \/ SweepStep \/ Tick

BatchSpec == BatchInit /\ [][BatchNext]_vars

(* ---------------------------------------------------------------- scraper *)

\* text_len > 100: a secondary-bridge text up to this length is thin.
ThinLen == 100

\* How one HTTP request can end: an exception (network error or timeout), a
\* response that is not ok, or an ok response.
Inaccessible == {"error", "timeout", "non200"}

Raises(net) == net \in {"error", "timeout"}

\* {"html": "", "title": "", "text": ""}
EmptyResult == [title |-> "", text |-> "", source |-> "empty"]

\* Responses of api.fxtwitter.com: data.get('tweet') and the tweet's text,
\* quote and media.
FxResponse(net, tweet, text, quote, media) ==
    [net |-> net, tweet |-> tweet, text |-> text, quote |-> quote, media |-> media]

FxResponses ==
    { FxResponse(n, FALSE, FALSE, FALSE, FALSE) : n \in Inaccessible \cup {"ok"} }
    \cup { FxResponse("ok", TRUE, t, q, m) : t \in BOOLEAN, q \in BOOLEAN, m \in BOOLEAN }

\* Responses of api.vxtwitter.com: len(data.get('text', '')) and whether
\* mediaURLs or media_extended is non-empty.
VxResponse(net, text_len, media) == [net |-> net, text_len |-> text_len, media |-> media]

VxResponses ==
    { VxResponse(n, 0, FALSE) : n \in Inaccessible }
    \cup { VxResponse("ok", l, m) : l \in {0, ThinLen, ThinLen + 1}, m \in BOOLEAN }

\* Responses of the tweet page itself: whether og:title and og:description
\* are present.
MetaResponse(net, title, desc) == [net |-> net, title |-> title, desc |-> desc]

MetaResponses ==
    { MetaResponse(n, FALSE, FALSE) : n \in Inaccessible }
    \cup { MetaResponse("ok", t, d) : t \in BOOLEAN, d \in BOOLEAN }

\* _format_twitter_data(tweet, 'fxtwitter'): title and text are never empty.
format_twitter_data(fx) ==
    [title |-> "Tweet by author: content", text |-> "TWEET CONTENT (fxtwitter)",
     source |-> "fxtwitter"]

\* _format_vxtwitter_data(data): title and text are never empty.
format_vxtwitter_data(vx) ==
    [title |-> "Tweet by user: content", text |-> "TWEET CONTENT (vxtwitter)",
     source |-> "vxtwitter"]

\* _scrape_twitter_metadata: OpenGraph title and description of the tweet
\* page; empty on any failure or when neither tag is present.
scrape_twitter_metadata(meta) ==
    IF meta.net # "ok" THEN EmptyResult
    ELSE IF ~meta.title /\ ~meta.desc THEN EmptyResult
    ELSE [title |-> IF meta.title THEN "og title" ELSE "Twitter Article",
          text |-> "TWEET/ARTICLE METADATA", source |-> "metadata"]

\* A chain that returns the thin secondary result without trying the direct
\* metadata scrape.
scrape_twitter_url_no_direct(fx, vx, meta) ==
    IF fx.net = "ok" /\ fx.tweet /\ (fx.text \/ fx.quote \/ fx.media)
    THEN [result |-> format_twitter_data(fx), attempted |-> <<"fxtwitter">>]
    ELSE IF vx.net = "ok"
    THEN [result |-> format_vxtwitter_data(vx), attempted |-> <<"fxtwitter", "vxtwitter">>]
    ELSE [result |-> scrape_twitter_metadata(meta),
          attempted |-> <<"fxtwitter", "vxtwitter", "metadata">>]

\* _scrape_twitter_url: the result and the strategies attempted, in order.
scrape_twitter_url(fx, vx, meta) ==
    IF fx.net = "ok" /\ fx.tweet /\ (fx.text \/ fx.quote \/ fx.media)
    THEN [result |-> format_twitter_data(fx), attempted |-> <<"fxtwitter">>]
    ELSE IF vx.net = "ok" /\ (vx.media \/ vx.text_len > ThinLen)
    THEN [result |-> format_vxtwitter_data(vx), attempted |-> <<"fxtwitter", "vxtwitter">>]
    ELSE LET vx_result == IF vx.net = "ok" THEN format_vxtwitter_data(vx) ELSE EmptyResult
             scrape_result == scrape_twitter_metadata(meta)
             tried == <<"fxtwitter", "vxtwitter", "metadata">>
         IN  IF scrape_result.title # "" \/ scrape_result.text # ""
             THEN [result |-> scrape_result, attempted |-> tried]
             ELSE IF vx.net = "ok"
             THEN [result |-> vx_result, attempted |-> tried]
             ELSE [result |-> EmptyResult, attempted |-> tried]

\* The Instagram length thresholds: a description counts from more than 20
\* characters, the bridges are tried below 100, the bridge loop stops above
\* 200, and a caption counts from more than 5.
MinDescLen == 20

RichDescLen == 100

FullDescLen == 200

MinCaptionLen == 5

\* generic_titles
GenericTitle == "Instagram Post"

\* A response of the Instagram page or of a bridge: the title found ("" when
\* none, GenericTitle, or a real one) and the length of the description.
IgResponse(net, title, desc_len) == [net |-> net, title |-> title, desc_len |-> desc_len]

IgDirect ==
    { IgResponse(n, "", 0) : n \in Inaccessible }
    \cup { IgResponse("ok", GenericTitle, 0), IgResponse("ok", "ig title", MinDescLen),
           IgResponse("ok", GenericTitle, 50), IgResponse("ok", "ig title", 150) }

\* The three bridges, in the order tried.
IgBridges ==
    { <<IgResponse(n, "", 0), IgResponse(n, "", 0), IgResponse(n, "", 0)>> : n \in Inaccessible }
    \cup { <<IgResponse("error", "", 0), IgResponse("ok", "bridge title", 120),
             IgResponse("ok", "bridge title", 250)>>,
           <<IgResponse("ok", GenericTitle, 0), IgResponse("non200", "", 0),
             IgResponse("ok", GenericTitle, 60)>> }

\* Length of the caption left of message_body once the URL and the share
\* phrases are removed; 0 when there is no message body.
CaptionLens == {0, MinCaptionLen, 40}

RECURSIVE TryBridges(_, _)
\* for bridge in bridges: a longer description replaces the best one.
TryBridges(best, bridges) ==
    IF bridges = <<>> THEN best
    ELSE LET b == Head(bridges)
         IN  IF b.net = "ok" /\ b.desc_len > 0 /\ b.desc_len > best.desc_len
             THEN LET better == [title |-> IF b.title \notin {"", GenericTitle}
                                           THEN b.title ELSE best.title,
                                 desc_len |-> b.desc_len, lines |-> best.lines + 1]
                  IN  IF better.desc_len > FullDescLen THEN better
                      ELSE TryBridges(better, Tail(bridges))
             ELSE TryBridges(best, Tail(bridges))

\* _scrape_instagram_url.
scrape_instagram_url(direct, bridges, caption_len) ==
    LET d_ok == direct.net = "ok"
        first == [title |-> IF d_ok /\ direct.title \notin {"", GenericTitle}
                            THEN direct.title ELSE GenericTitle,
                  desc_len |-> IF d_ok /\ direct.desc_len > MinDescLen THEN direct.desc_len ELSE 0,
                  lines |-> IF d_ok /\ direct.desc_len > MinDescLen THEN 1 ELSE 0]
        bridged == IF first.desc_len < RichDescLen THEN TryBridges(first, bridges) ELSE first
        best == IF caption_len > MinCaptionLen
                THEN [title |-> IF bridged.title = GenericTitle THEN "caption" ELSE bridged.title,
                      desc_len |-> IF caption_len > bridged.desc_len THEN caption_len
                                   ELSE bridged.desc_len,
                      lines |-> bridged.lines + 1]
                ELSE bridged
    IN  IF best.lines = 0 /\ best.desc_len = 0
        THEN [title |-> "Instagram Link",
              text |-> "Instagram content (metadata extraction failed)",
              source |-> "placeholder"]
        ELSE [title |-> IF best.title = GenericTitle THEN "from description" ELSE best.title,
              text |-> "instagram metadata", source |-> "instagram"]

\* Inputs of the YouTube branch: whether a video id can be extracted, the
\* watch page (and whether it holds the player data), the oEmbed request and
\* the transcript fetch.
YtInput(id, page, player, oembed, transcript) ==
    [id |-> id, page |-> page, player |-> player, oembed |-> oembed, transcript |-> transcript]

YtInputs ==
    { YtInput(FALSE, "error", FALSE, "error", FALSE) }
    \cup { YtInput(TRUE, p, FALSE, o, FALSE) : p \in Inaccessible, o \in Inaccessible }
    \cup { YtInput(TRUE, "non200", FALSE, "ok", FALSE) }
    \cup { YtInput(TRUE, "ok", pl, o, t) :
              pl \in BOOLEAN, o \in {"error", "ok"}, t \in BOOLEAN }

\* _scrape_youtube_url: the page request has no status check, so any response
\* is formatted; only an exception gives the short result.
scrape_youtube_url(yt) ==
    IF ~yt.id THEN [title |-> "YouTube Video", text |-> "", source |-> "youtube"]
    ELSE IF Raises(yt.page) THEN [title |-> "YouTube Video", text |-> "", source |-> "youtube"]
    ELSE [title |-> IF yt.page = "ok" /\ yt.player THEN "video title"
                    ELSE IF yt.oembed = "ok" THEN "oembed title"
                    ELSE "YouTube Video",
          text |-> "YOUTUBE VIDEO ANALYSIS", source |-> "youtube"]

\* Pages of the generic branch: a full page, a page without a title tag, a
\* page whose title tag has no string (soup.title.string is None), an empty
\* body.
Pages == {"full", "no_title", "title_without_string", "blank"}

GenericInputs ==
    { [net |-> n, page |-> "blank"] : n \in Inaccessible }
    \cup { [net |-> "ok", page |-> pg] : pg \in Pages }

\* The generic branch of scrape_url: requests.get, raise_for_status,
\* BeautifulSoup; every exception gives the empty result.
scrape_generic(g) ==
    IF g.net # "ok" THEN EmptyResult
    ELSE CASE g.page = "full" ->
                 [title |-> "Page title", text |-> "page text", source |-> "generic"]
           [] g.page = "no_title" ->
                 [title |-> "", text |-> "page text", source |-> "generic"]
           [] g.page = "title_without_string" -> EmptyResult
           [] OTHER -> [title |-> "", text |-> "", source |-> "generic"]

Branches == {"generic", "twitter", "instagram", "youtube"}

\* The inputs of one scrape_url call, per branch.
ScrapeInputs ==
    { [branch |-> "generic", g |-> g] : g \in GenericInputs }
    \cup { [branch |-> "twitter", fx |-> fx, vx |-> vx, meta |-> meta] :
              fx \in FxResponses, vx \in VxResponses, meta \in MetaResponses }
    \cup { [branch |-> "instagram", direct |-> d, bridges |-> b, caption_len |-> c] :
              d \in IgDirect, b \in IgBridges, c \in CaptionLens }
    \cup { [branch |-> "youtube", yt |-> yt] : yt \in YtInputs }

\* scrape_url: dispatch on the URL; the result and the strategies attempted.
scrape_url(in) ==
    CASE in.branch = "twitter" -> scrape_twitter_url(in.fx, in.vx, in.meta)
      [] in.branch = "instagram" ->
            [result |-> scrape_instagram_url(in.direct, in.bridges, in.caption_len),
             attempted |-> <<"instagram">>]
      [] in.branch = "youtube" ->
            [result |-> scrape_youtube_url(in.yt), attempted |-> <<"youtube">>]
      [] OTHER -> [result |-> scrape_generic(in.g), attempted |-> <<"generic">>]

\* A call of scrape_url, not yet evaluated.
ScrapeCall(in) == [fn |-> "scrape_url", in |-> in, done |-> FALSE,
                   result |-> EmptyResult, attempted |-> <<>>]

ScrapeInit ==
    /\ \E in \in ScrapeInputs : call = ScrapeCall(in)
    /\ users = [u \in UIDs |-> UserDoc("+16462440305")]
    /\ links = <<>>
    /\ pending = <<>>
    /\ proc = <<>>
    /\ outbox = <<>>
    /\ lastResp = Resp(Null, <<>>, 0, "none")
    /\ msgs = 0
    /\ now = 0
    /\ sweeps = <<>>

\* scrape_url(url, message_body) returns.
ApplyScrape ==
    /\ call.fn = "scrape_url"
    /\ ~call.done
    /\ LET out == scrape_url(call.in)
       IN  call' = [call EXCEPT !.done = TRUE, !.result = out.result,
                                !.attempted = out.attempted]
    /\ UNCHANGED <<users, links, pending, proc, outbox, lastResp, msgs, now, sweeps>>

ScrapeNext == ApplyScrape

ScrapeSpec == ScrapeInit /\ [][ScrapeNext]_vars

(* ------------------------------------------------ find_related_links calls *)

GraphIds == {1, 2, 3}

GraphInputs ==
    {[new_link_id |-> n, retrieval |-> r, llm |-> l] :
        n \in {PendingId} \cup GraphIds,
        r \in UNION {Retrievals(c) : c \in SUBSET GraphIds},
        l \in LlmOutcomes(GraphIds)}

GraphCall(in) == [fn |-> "find_related_links", in |-> in, done |-> FALSE,
                  result |-> <<>>]

GraphInit ==
    /\ \E in \in GraphInputs : call = GraphCall(in)
    /\ users = [u \in UIDs |-> UserDoc("+16462440305")]
    /\ links = <<>>
    /\ pending = <<>>
    /\ proc = <<>>
    /\ outbox = <<>>
    /\ lastResp = Resp(Null, <<>>, 0, "none")
    /\ msgs = 0
    /\ now = 0
    /\ sweeps = <<>>

\* find_related_links(...) returns.
ApplyGraph ==
    /\ call.fn = "find_related_links"
    /\ ~call.done
    /\ call' = [call EXCEPT
                  !.done = TRUE,
                  !.result = find_related_links(call.in.new_link_id,
                                                call.in.retrieval, call.in.llm)]
    /\ UNCHANGED <<users, links, pending, proc, outbox, lastResp, msgs, now, sweeps>>

GraphNext == ApplyGraph

GraphSpec == GraphInit /\ [][GraphNext]_vars

(* ------------------------------------------------ two saves of one owner *)

\* A record saved earlier by the owner, with its vector.
SeedLink == SweepLink("u1", "General", Missing, NoTime, 0, Missing)

\* Two work items of the same owner are queued; the owner's corpus holds one
\* record, which is also the last one saved.
SaveInit ==
    /\ users = [u \in UIDs |-> [UserDoc("+16462440305") EXCEPT !.lastSavedLinkId = 1]]
    /\ links = <<SeedLink>>
    /\ pending = <<PendingDoc("u1", Url1, KnownSender, <<Url1>>),
                   PendingDoc("u1", Url2, KnownSender, <<Url2, "Tomorrow">>)>>
    /\ proc = <<NewProc, NewProc>>
    /\ outbox = <<>>
    /\ lastResp = Resp(KnownSender, <<Url2, "Tomorrow">>, 200, "queued")
    /\ msgs = 2
    /\ now = 0
    /\ sweeps = <<>>
    /\ call = NoCall

SaveNext == Process

SaveSpec == SaveInit /\ [][SaveNext]_vars

(* ------------------------------------------------------ analyze_text calls *)

\* The text handed to analyze_text: empty, a page, or more than the 30000
\* characters that are sent.
AnalyzeTexts == {"", "page text", "text longer than the cut"}

\* existing_tags: none, or the owner's tags.
TagLists == {<<>>, <<"ai">>, <<"ai", "ml">>}

AnalyzeInputs ==
    {[text |-> x, existing_tags |-> g, outcome |-> o] :
        x \in AnalyzeTexts, g \in TagLists, o \in AnalyzeOutcomes}

AnalyzeCall(in) == [fn |-> "analyze_text", in |-> in, done |-> FALSE,
                    result |-> JNull, validated |-> JNull]

AnalyzeInit ==
    /\ \E in \in AnalyzeInputs : call = AnalyzeCall(in)
    /\ users = [u \in UIDs |-> UserDoc("+16462440305")]
    /\ links = <<>>
    /\ pending = <<>>
    /\ proc = <<>>
    /\ outbox = <<>>
    /\ lastResp = Resp(Null, <<>>, 0, "none")
    /\ msgs = 0
    /\ now = 0
    /\ sweeps = <<>>

\* analysis = claude.analyze_text(text, existing_tags=...) returns, and the
\* caller's isinstance validation has run on it.
ApplyAnalyze ==
    /\ call.fn = "analyze_text"
    /\ ~call.done
    /\ call' = [call EXCEPT !.done = TRUE,
                            !.result = analyze_text(call.in.outcome),
                            !.validated = ValidateAnalysis(analyze_text(call.in.outcome))]
    /\ UNCHANGED <<users, links, pending, proc, outbox, lastResp, msgs, now, sweeps>>

AnalyzeNext == ApplyAnalyze

AnalyzeSpec == AnalyzeInit /\ [][AnalyzeNext]_vars

(* ------------------------------------------- one save into a corpus of one *)

\* One work item is queued for an owner whose corpus holds one record.
CorpusInit ==
    /\ users = [u \in UIDs |-> [UserDoc("+16462440305") EXCEPT !.lastSavedLinkId = 1]]
    /\ links = <<SeedLink>>
    /\ pending = <<PendingDoc("u1", Url2, KnownSender, <<Url2, "Tomorrow">>)>>
    /\ proc = <<NewProc>>
    /\ outbox = <<>>
    /\ lastResp = Resp(KnownSender, <<Url2, "Tomorrow">>, 200, "queued")
    /\ msgs = 1
    /\ now = 0
    /\ sweeps = <<>>
    /\ call = NoCall

CorpusNext == Process

CorpusSpec == CorpusInit /\ [][CorpusNext]_vars

(* -------------------------------------------------------- preview endpoints *)

\* new_link_id="preview": the placeholder analyze_link passes; it equals no
\* document id.
PreviewId == NoLink

\* A request to a preview endpoint: the method, whether the body is a
\* non-empty JSON object, and its 'url' (or 'imageUrl') and 'uid' entries.
PreviewReqs ==
    {[method |-> m, json |-> j, url |-> u, uid |-> o] :
        m \in {"OPTIONS", "POST"}, j \in BOOLEAN, u \in {Null, Url1}, o \in {Null, "u1"}}

NoPreviewLink == [title |-> "", category |-> "", relatedLinks |-> <<>>]

PreviewResp(code, error, link) == [code |-> code, error |-> error, link |-> link]

\* The body of analyze_link after the CORS preflight.
analyze_link(req, scraped, outcome, embedOk, retrieval, llm) ==
    LET analysis == analyze_text(outcome)
        related == IF Truthy(req.uid)
                   THEN find_related_links(PreviewId, retrieval, llm)
                   ELSE <<>>
    IN  IF req.method = "OPTIONS" THEN PreviewResp(204, "", NoPreviewLink)
        ELSE IF ~req.json THEN PreviewResp(400, "Invalid JSON body", NoPreviewLink)
        ELSE IF ~Truthy(req.url) THEN PreviewResp(400, "URL is required", NoPreviewLink)
        ELSE IF ~Truthy(scraped.v.text) /\ ~Truthy(scraped.v.html)
             THEN PreviewResp(500, "Failed to scrape content", NoPreviewLink)
        ELSE IF analysis.type # "dict" \/ ~embedOk
             THEN PreviewResp(500, ErrorText, NoPreviewLink)
        ELSE PreviewResp(200, "",
                 [title |-> Get(analysis.obj, "title", Get(scraped, "title", "Untitled")),
                  category |-> Get(analysis.obj, "category", "General"),
                  relatedLinks |-> related])

\* The body of analyze_image after the CORS preflight; ClaudeService has no
\* analyze_image in ai_service.py, the call is taken as one that may return
\* an analysis or raise.
analyze_image(req, downloaded, outcome, analyzeOk) ==
    LET analysis == analyze_text(outcome)
    IN  IF req.method = "OPTIONS" THEN PreviewResp(204, "", NoPreviewLink)
        ELSE IF ~req.json THEN PreviewResp(400, "Invalid JSON body", NoPreviewLink)
        ELSE IF ~Truthy(req.url) THEN PreviewResp(400, "Image URL is required", NoPreviewLink)
        ELSE IF ~downloaded THEN PreviewResp(500, "Failed to download image", NoPreviewLink)
        ELSE IF ~analyzeOk \/ analysis.type # "dict"
             THEN PreviewResp(500, ErrorText, NoPreviewLink)
        ELSE PreviewResp(200, "",
                 [title |-> Get(analysis.obj, "title", "Image Analysis"),
                  category |-> Get(analysis.obj, "category", "General"),
                  relatedLinks |-> <<>>])

\* What the outside world does during one request: whether the page (or the
\* image) could be fetched, what the model call does, and whether the
\* embedding call (or the image analysis call) returns.
PreviewEnvs ==
    {[fetched |-> f, outcome |-> o, ok |-> k] :
        f \in BOOLEAN, o \in AnalyzeOutcomes, k \in BOOLEAN}

Scraped(env) == IF env.fetched THEN PageScrape ELSE EmptyScrape

PreviewCall(fn, req, env, resp) == [fn |-> fn, req |-> req, env |-> env, resp |-> resp]

NoPreview ==
    PreviewCall("none", [method |-> "POST", json |-> FALSE, url |-> Null, uid |-> Null],
                [fetched |-> FALSE, outcome |-> "raises", ok |-> FALSE],
                PreviewResp(0, "", NoPreviewLink))

\* The request gets as far as the find_related_links call.
ReachesGraph(req, env) ==
    /\ Truthy(req.uid)
    /\ analyze_link(req, Scraped(env), env.outcome, env.ok, NoRetrieval, NoLlm).code = 200

\* Variant of the preview that stores what it computed: on success with an
\* owner id the record is saved and the owner's pointer moved.
AnalyzeLinkSaving ==
    /\ \E req \in PreviewReqs, env \in PreviewEnvs :
       \E retrieval \in IF ReachesGraph(req, env)
                        THEN Retrievals(Candidates(req.uid)) ELSE {NoRetrieval},
          llm \in IF ReachesGraph(req, env) THEN LlmOutcomes(LinkIds) ELSE {NoLlm} :
          LET resp == analyze_link(req, Scraped(env), env.outcome, env.ok, retrieval, llm)
          IN  /\ call' = PreviewCall("analyze_link", req, env, resp)
              /\ IF resp.code = 200 /\ req.uid \in UIDs
                 THEN /\ links' = Append(links, [SeedLink EXCEPT
                                                   !.uid = req.uid,
                                                   !.title = resp.link.title,
                                                   !.category = resp.link.category,
                                                   !.relatedLinks = Range(resp.link.relatedLinks)])
                      /\ users' = [users EXCEPT ![req.uid].lastSavedLinkId = Len(links) + 1]
                 ELSE UNCHANGED <<users, links>>
    /\ UNCHANGED <<pending, proc, outbox, lastResp, msgs, now, sweeps>>

\* One request to analyze_link, answered.
AnalyzeLink ==
    /\ \E req \in PreviewReqs, env \in PreviewEnvs :
       \E retrieval \in IF ReachesGraph(req, env)
                        THEN Retrievals(Candidates(req.uid)) ELSE {NoRetrieval},
          llm \in IF ReachesGraph(req, env) THEN LlmOutcomes(LinkIds) ELSE {NoLlm} :
          call' = PreviewCall("analyze_link", req, env,
                              analyze_link(req, Scraped(env), env.outcome, env.ok,
                                           retrieval, llm))
    /\ UNCHANGED <<users, links, pending, proc, outbox, lastResp, msgs, now, sweeps>>

\* One request to analyze_image, answered.
AnalyzeImage ==
    /\ \E req \in PreviewReqs, env \in PreviewEnvs :
          call' = PreviewCall("analyze_image", req, env,
                              analyze_image(req, env.fetched, env.outcome, env.ok))
    /\ UNCHANGED <<users, links, pending, proc, outbox, lastResp, msgs, now, sweeps>>

\* The store holds one record of the owner, who is the last one saved, and
\* one queued work item.
PreviewInit ==
    /\ users = [u \in UIDs |-> [UserDoc("+16462440305") EXCEPT !.lastSavedLinkId = 1]]
    /\ links = <<SeedLink>>
    /\ pending = <<PendingDoc("u1", Url2, KnownSender, <<Url2, "Tomorrow">>)>>
    /\ proc = <<NewProc>>
    /\ outbox = <<>>
    /\ lastResp = Resp(KnownSender, <<Url2, "Tomorrow">>, 200, "queued")
    /\ msgs = 1
    /\ now = 0
    /\ sweeps = <<>>
    /\ call = NoPreview

PreviewNext == AnalyzeLink \/ AnalyzeImage

PreviewSpec == PreviewInit /\ [][PreviewNext]_vars

(* ------------------------------------------------------ embedding service *)

EmbedDim == 768

\* A vector by its length and whether it is all zeros.
ZeroVector == [dim |-> EmbedDim, zero |-> TRUE]
ProviderVector == [dim |-> EmbedDim, zero |-> FALSE]
NoVector == [dim |-> 0, zero |-> TRUE]

\* What embed_content does: returns embeddings of the requested
\* dimensionality, raises, or returns a result without embeddings.
ProviderOutcomes == {"vector", "raises", "no_embeddings"}

\* EmbeddingService.generate_embedding: the zero vector without a client,
\* the provider's vector, or an exception.
generate_embedding(has_key, provider) ==
    IF ~has_key THEN [raised |-> FALSE, vector |-> ZeroVector]
    ELSE IF provider = "vector" THEN [raised |-> FALSE, vector |-> ProviderVector]
    ELSE [raised |-> TRUE, vector |-> NoVector]

\* The created document the trigger runs on, and the environment.
EmbedInputs ==
    {[title |-> t, summary |-> s, tags |-> g, has_key |-> k, provider |-> p] :
        t \in {"", "AI title"}, s \in {"", "AI summary"}, g \in {<<>>, <<"ai">>},
        k \in BOOLEAN, p \in ProviderOutcomes}

CreatedLink(in) ==
    [SeedLink EXCEPT !.title = in.title, !.summary = in.summary, !.tags = in.tags,
                     !.hasEmbedding = FALSE]

EmbedCall(in) == [fn |-> "sync_link_embedding", in |-> in, pc |-> "embed",
                  raised |-> FALSE, vector |-> NoVector]

\* A link document has just been created and its trigger starts.
EmbedInit ==
    /\ \E in \in EmbedInputs : /\ call = EmbedCall(in)
                               /\ links = <<CreatedLink(in)>>
    /\ users = [u \in UIDs |-> [UserDoc("+16462440305") EXCEPT !.lastSavedLinkId = 1]]
    /\ pending = <<>>
    /\ proc = <<>>
    /\ outbox = <<>>
    /\ lastResp = Resp(Null, <<>>, 0, "none")
    /\ msgs = 0
    /\ now = 0
    /\ sweeps = <<>>

\* vector = service.generate_embedding(text_to_embed); an exception goes to
\* the trigger's except, which only prints.
GenerateEmbedding ==
    /\ call.fn = "sync_link_embedding"
    /\ call.pc = "embed"
    /\ LET out == generate_embedding(call.in.has_key, call.in.provider)
       IN  call' = [call EXCEPT !.pc = IF out.raised THEN "end" ELSE "update",
                                !.raised = out.raised,
                                !.vector = out.vector]
    /\ UNCHANGED <<users, links, pending, proc, outbox, lastResp, msgs, now, sweeps>>

\* doc_ref.update({"embedding_vector": Vector(vector)}), which may raise
\* into the same except.
UpdateVector ==
    /\ call.fn = "sync_link_embedding"
    /\ call.pc = "update"
    /\ call' = [call EXCEPT !.pc = "end"]
    /\ \/ links' = [links EXCEPT ![1].hasEmbedding = TRUE]
       \/ UNCHANGED links
    /\ UNCHANGED <<users, pending, proc, outbox, lastResp, msgs, now, sweeps>>

EmbedNext == GenerateEmbedding \/ UpdateVector

EmbedSpec == EmbedInit /\ [][EmbedNext]_vars

(* ----------------------------------------------- webhook requests with media *)

ImageUrl == "https://images.example.com/photo.jpg"

\* NumMedia = 0: no MediaUrl0 / MediaContentType0 in the form.
NoMedia == [url |-> Null, mime |-> Null]

ImageMedia == [url |-> ImageUrl, mime |-> "image/jpeg"]

\* The form Twilio posts (test_webhook_sim.py): From, Body and, with one
\* attachment, MediaUrl0 and MediaContentType0. A caption holds no URL; the
\* media URL is a field of the form, not part of Body.
MediaForms ==
    {[From |-> f, Body |-> b, media |-> m] :
        f \in Senders, b \in Bodies \cup {<<>>}, m \in {NoMedia, ImageMedia}}

\* WebhookPayload(**data): the model declares From, Body and MessageSid;
\* every other field of the form is ignored.
WebhookPayload(data) == [from_number |-> data.From, body |-> data.Body]

\* whatsapp_webhook on one posted form; the form is kept in `call`.
MediaWebhook ==
    /\ msgs < MaxMsgs
    /\ msgs' = msgs + 1
    /\ \E data \in MediaForms :
          LET payload == WebhookPayload(data)
          IN  /\ whatsapp_webhook(payload.from_number, payload.body)
              /\ call' = [fn |-> "whatsapp_webhook", data |-> data]
    /\ UNCHANGED sweeps

MediaNext == MediaWebhook \/ Process

MediaSpec == Init /\ [][MediaNext]_vars

(* --------------------------------------------------------- reminder profile *)

\* A message whose profile is about to be picked: by whatsapp_webhook when
\* it holds no URL, by process_link_background when it holds one.
ProfileCall(text) == [fn |-> "reminder_profile", text |-> text, done |-> FALSE]

\* The record the reminder goes to: the last saved link of the sender, which
\* for a message with a URL is the record the work item has just saved.
ProfileInit ==
    /\ \E text \in IntentTexts :
          /\ call = ProfileCall(text)
          /\ IF FirstUrl(text) = Null
             THEN /\ pending = <<>>
                  /\ proc = <<>>
                  /\ links = <<SeedLink>>
             ELSE /\ pending = <<[PendingDoc("u1", FirstUrl(text), KnownSender, text)
                                     EXCEPT !.status = "saving"]>>
                  /\ proc = <<[NewProc EXCEPT !.pc = "reminder", !.link_id = 1]>>
                  /\ links = <<[SeedLink EXCEPT !.task = 1, !.url = FirstUrl(text)]>>
    /\ users = [u \in UIDs |-> [UserDoc("+16462440305") EXCEPT !.lastSavedLinkId = 1]]
    /\ outbox = <<>>
    /\ lastResp = Resp(Null, <<>>, 0, "none")
    /\ msgs = 0
    /\ now \in Times
    /\ sweeps = <<>>

\* The command branch of whatsapp_webhook on the message.
ProfileByCommand ==
    /\ call.fn = "reminder_profile" /\ ~call.done
    /\ FirstUrl(call.text) = Null
    /\ whatsapp_webhook(KnownSender, call.text)
    /\ msgs' = msgs + 1
    /\ call' = [call EXCEPT !.done = TRUE]
    /\ UNCHANGED sweeps

\* The reminder step of process_link_background on the message.
ProfileByTask ==
    /\ call.fn = "reminder_profile" /\ ~call.done
    /\ FirstUrl(call.text) # Null
    /\ Reminder(1)
    /\ call' = [call EXCEPT !.done = TRUE]
    /\ UNCHANGED sweeps

ProfileNext == ProfileByCommand \/ ProfileByTask

ProfileSpec == ProfileInit /\ [][ProfileNext]_vars

(* ------------------------------------------------------ scrape_url dispatch *)

UrlTwitter == "https://twitter.com/user/status/1"
UrlX == "https://x.com/user/status/1"
UrlMobileTwitter == "https://mobile.twitter.com/user/status/1"
UrlInstagram == "https://www.instagram.com/reel/abc"
UrlYoutube == "https://www.youtube.com/watch?v=abc"
UrlYoutuBe == "https://youtu.be/abc"
UrlNetflix == "https://netflix.com/title/1"
UrlDropbox == "https://www.dropbox.com/s/abc"
UrlShared == "https://example.com/share?u=youtu.be/abc"

DispatchUrls ==
    {UrlTwitter, UrlX, UrlMobileTwitter, UrlInstagram, UrlYoutube, UrlYoutuBe, Url1,
     UrlNetflix, UrlDropbox, UrlShared}

\* `pattern in url`: the substring test, tabulated over DispatchUrls.
InUrl(pattern, url) ==
    url \in CASE pattern = "twitter.com" -> {UrlTwitter, UrlMobileTwitter}
              [] pattern = "x.com" -> {UrlX, UrlNetflix, UrlDropbox}
              [] pattern = "instagram.com" -> {UrlInstagram}
              [] pattern = "youtube.com" -> {UrlYoutube}
              [] pattern = "youtu.be" -> {UrlYoutuBe, UrlShared}
              [] OTHER -> {}

\* The two definitions of scrape_url: scraper.py, and the copy in main.py
\* that process_link_background and analyze_link call (it has no YouTube
\* branch).
ScrapeModules == {"scraper", "main"}

\* The if-chain at the head of scrape_url.
scrape_dispatch(module, url) ==
    IF InUrl("twitter.com", url) \/ InUrl("x.com", url) THEN "twitter"
    ELSE IF InUrl("instagram.com", url) THEN "instagram"
    ELSE IF module = "scraper" /\ (InUrl("youtube.com", url) \/ InUrl("youtu.be", url))
         THEN "youtube"
    ELSE "generic"

DispatchCall(module, url) ==
    [fn |-> "scrape_url", module |-> module, url |-> url, done |-> FALSE,
     branch |-> "", result |-> EmptyResult, attempted |-> <<>>]

DispatchInit ==
    /\ \E module \in ScrapeModules, url \in DispatchUrls : call = DispatchCall(module, url)
    /\ users = [u \in UIDs |-> UserDoc("+16462440305")]
    /\ links = <<>>
    /\ pending = <<>>
    /\ proc = <<>>
    /\ outbox = <<>>
    /\ lastResp = Resp(Null, <<>>, 0, "none")
    /\ msgs = 0
    /\ now = 0
    /\ sweeps = <<>>

\* scrape_url(url) picks its branch and returns what the branch returns for
\* some behaviour of the network.
ApplyDispatch ==
    /\ call.fn = "scrape_url"
    /\ ~call.done
    /\ LET branch == scrape_dispatch(call.module, call.url)
       IN  \E in \in ScrapeInputs :
              /\ in.branch = branch
              /\ LET out == scrape_url(in)
                 IN  call' = [call EXCEPT !.done = TRUE, !.branch = branch,
                                          !.result = out.result,
                                          !.attempted = out.attempted]
    /\ UNCHANGED <<users, links, pending, proc, outbox, lastResp, msgs, now, sweeps>>

DispatchNext == ApplyDispatch

DispatchSpec == DispatchInit /\ [][DispatchNext]_vars

(* -------------------------------------------------------------- search_links *)

\* req.data.get("limit", 10)
DefaultLimit == 10

\* The stored links the searches run over: two owners, with and without a
\* vector.
SearchLinks ==
    << SeedLink,
       [SeedLink EXCEPT !.url = Url2],
       [SeedLink EXCEPT !.uid = "u2"],
       [SeedLink EXCEPT !.uid = "u2", !.hasEmbedding = FALSE] >>

\* A callable request: req.auth.uid (Null without authentication) and the
\* payload's test_uid, query and limit entries (Missing when absent).
SearchReqs ==
    {[auth |-> a, test_uid |-> t, query |-> q, limit |-> l] :
        a \in {Null, "u1", "u2"}, t \in {Missing, "u1", "u2"},
        q \in {Missing, "", "query"}, l \in {Missing, "1"}}

\* What the call raises (an HttpsError: code and str(e)) or returns.
SearchError(code, text) == [code |-> code, text |-> text, links |-> <<>>]
SearchOk(items) == [code |-> "ok", text |-> "", links |-> items]

\* doc.to_dict() without embedding_vector, plus the id.
SearchItem(ls, i) ==
    [id |-> i, uid |-> ls[i].uid, url |-> ls[i].url,
     keys |-> ({"title", "url", "id"}
               \cup IF ls[i].hasEmbedding THEN {"embedding_vector"} ELSE {})
              \ {"embedding_vector"}]

\* perform_search_logic(uid, query_text, limit): the nearest documents of
\* users/{uid}/links that carry a vector; raises when the embedding or the
\* query raises.
perform_search_logic(ls, uid, limit, embedding, retrieval) ==
    IF embedding.raised \/ retrieval.raises
    THEN [raised |-> TRUE, links |-> <<>>]
    ELSE LET n == IF Len(retrieval.ids) < limit THEN Len(retrieval.ids) ELSE limit
         IN  [raised |-> FALSE,
              links |-> [k \in 1..n |-> SearchItem(ls, retrieval.ids[k])]]

\* search_links(req). An HttpsError raised inside the try is caught by the
\* handler's own `except Exception` and raised again with code INTERNAL and
\* a message that starts with the original text.
search_links(ls, req, embedding, retrieval) ==
    LET uid == IF req.auth # Null THEN req.auth
               ELSE IF req.test_uid # Missing THEN req.test_uid ELSE Null
        limit == IF req.limit = Missing THEN DefaultLimit ELSE 1
    IN  IF uid = Null THEN SearchError("internal", "User must be authenticated")
        ELSE IF req.query \in {Missing, ""}
             THEN SearchError("internal", "Query text is required")
        ELSE LET found == perform_search_logic(ls, uid, limit, embedding, retrieval)
             IN  IF found.raised THEN SearchError("internal", "exception text")
                 ELSE SearchOk(found.links)

SearchCall(req) == [fn |-> "search_links", req |-> req, done |-> FALSE,
                    resp |-> SearchOk(<<>>)]

SearchInit ==
    /\ \E req \in SearchReqs : call = SearchCall(req)
    /\ users = [u \in UIDs |-> UserDoc("+16462440305")]
    /\ links = SearchLinks
    /\ pending = <<>>
    /\ proc = <<>>
    /\ outbox = <<>>
    /\ lastResp = Resp(Null, <<>>, 0, "none")
    /\ msgs = 0
    /\ now = 0
    /\ sweeps = <<>>

\* The collection the vector query runs on, for some owner.
WithVector(uid) == {i \in LinkIds : links[i].uid = uid /\ links[i].hasEmbedding}

\* One call of search_links, for every behaviour of the embedding provider
\* and of the vector query.
Search ==
    /\ call.fn = "search_links"
    /\ ~call.done
    /\ \E has_key \in BOOLEAN, provider \in ProviderOutcomes, owner \in {"u1", "u2"} :
       \E retrieval \in Retrievals(WithVector(owner)) :
          /\ owner = (IF call.req.auth # Null THEN call.req.auth
                      ELSE IF call.req.test_uid # Missing THEN call.req.test_uid
                      ELSE "u1")
          /\ call' = [call EXCEPT !.done = TRUE,
                        !.resp = search_links(links, call.req,
                                              generate_embedding(has_key, provider),
                                              retrieval)]
    /\ UNCHANGED <<users, links, pending, proc, outbox, lastResp, msgs, now, sweeps>>

SearchNext == Search

SearchSpec == SearchInit /\ [][SearchNext]_vars

(* ------------------------------------------------- life of one armed item *)

\* Sequential runs explored over the life of one item: three that notify
\* and one after completion.
LifeSweeps == 4

\* Jumps of the clock explored over the life of one item.
LifeTicks == 3

\* The last saved link of u1, not armed yet; the sender's commands arm it.
LifeInit ==
    /\ links = <<SweepLink("u1", "Tech", Missing, NoTime, 0, Missing)>>
    /\ users = SweepUsers(1)
    /\ pending = <<>>
    /\ proc = <<>>
    /\ outbox = <<>>
    /\ lastResp = Resp(Null, <<>>, 0, "none")
    /\ msgs = 0
    /\ now = Day0
    /\ sweeps = <<>>
    /\ call = NoCall

\* A scheduled run starts after the runs before it have ended.
LifeStart ==
    /\ Len(sweeps) < LifeSweeps
    /\ \A s \in Sweeps : sweeps[s].pc \in SweepEnded
    /\ sweeps' = Append(sweeps, NewSweep)
    /\ UNCHANGED <<users, links, pending, proc, outbox, lastResp, msgs, now, call>>

\* Time passes between runs.
LifeTick ==
    /\ now < Day0 + LifeTicks * TickDays
    /\ \A s \in Sweeps : sweeps[s].pc \in SweepEnded
    /\ now' = now + TickDays
    /\ UNCHANGED <<users, links, pending, proc, outbox, lastResp, msgs, sweeps, call>>

LifeNext == LifeStart \/ SweepStep \/ LifeTick \/ SweepCommand

LifeSpec == LifeInit /\ [][LifeNext]_vars

(* ------------------------------------------------------- overlapping runs *)

\* Runs of run_reminder_check that may be in progress at once: the
\* scheduled check_reminders and a manual force_check_reminders.
OverlapRuns == 2

\* Two due items of u1, at counts 0 and 2.
OverlapLinks ==
    << SweepLink("u1", "Tech", "pending", Ms(ToMs(0)), 0, "smart"),
       SweepLink("u1", "Tech", "pending", Ms(ToMs(Day0)), 2, "spaced") >>

OverlapInit ==
    /\ links = OverlapLinks
    /\ users = SweepUsers(1)
    /\ pending = <<>>
    /\ proc = <<>>
    /\ outbox = <<>>
    /\ lastResp = Resp(Null, <<>>, 0, "none")
    /\ msgs = 0
    /\ now = Day0
    /\ sweeps = <<>>
    /\ call = NoCall

\* check_reminders or force_check_reminders calls run_reminder_check, whether
\* or not another run is in progress: nothing in the code serialises them.
OverlapStart ==
    /\ Len(sweeps) < OverlapRuns
    /\ sweeps' = Append(sweeps, NewSweep)
    /\ UNCHANGED <<users, links, pending, proc, outbox, lastResp, msgs, now, call>>

OverlapNext == OverlapStart \/ SweepStep

OverlapSpec == OverlapInit /\ [][OverlapNext]_vars

(* -------------------------------------------------------- repeated sweeps *)

\* Some pending item of a user the sweep serves is due at the current time.
SomethingDue ==
    \E u \in Range(SweepUIDs) :
       /\ RemindersEnabled(users[u].settings)
       /\ Truthy(UserPhone(users[u]))
       /\ DueOf(u, ToMs(now), links) # {}

\* check_reminders, every 2 minutes: the next run starts when the one before
\* it has ended; its record takes the place of the ended one.
FairStart ==
    /\ \A s \in Sweeps : sweeps[s].pc \in SweepEnded
    /\ sweeps' = <<NewSweep>>
    /\ UNCHANGED <<users, links, pending, proc, outbox, lastResp, msgs, now, call>>

\* A step of the run in which every send and every update succeeds.
FairStep == SweepStep /\ SumFaults(sweeps') = 0

\* Time passes.  The schedule is much finer than the intervals between due
\* times, so the clock only jumps when nothing is due; it stops when no item
\* is pending any more.
FairTick ==
    /\ now < Day0 + LifeTicks * TickDays
    /\ ~SomethingDue
    /\ \E i \in LinkIds : links[i].reminderStatus = "pending"
    /\ now' = now + TickDays
    /\ UNCHANGED <<users, links, pending, proc, outbox, lastResp, msgs, sweeps, call>>

FairNext == FairStart \/ FairStep \/ FairTick

\* The scheduler keeps starting runs, a started run proceeds, time passes.
FairSpec ==
    /\ BatchInit
    /\ [][FairNext]_vars
    /\ WF_vars(FairStart) /\ WF_vars(FairStep) /\ WF_vars(FairTick)

(* ------------------------------------------ commands and overlapping runs *)

\* Two due items of u1 as set_reminder and earlier runs left them (counts 0
\* and 2); the second is the last saved link, which the sender's commands
\* re-arm while up to two runs, overlapping or not, are under way.  u1 is
\* the only user.
FieldsInit ==
    /\ links = OverlapLinks
    /\ users = [u \in {"u1"} |-> SweepUsers(2)[u]]
    /\ pending = <<>>
    /\ proc = <<>>
    /\ outbox = <<>>
    /\ lastResp = Resp(Null, <<>>, 0, "none")
    /\ msgs = 0
    /\ now = Day0
    /\ sweeps = <<>>
    /\ call = NoCall

\* users = users_ref.get(): a run starts with the one user there is, whether
\* or not another run is in progress.
FieldsStart ==
    /\ Len(sweeps) < OverlapRuns
    /\ sweeps' = Append(sweeps, [NewSweep EXCEPT !.queue = <<"u1">>])
    /\ UNCHANGED <<users, links, pending, proc, outbox, lastResp, msgs, now, call>>

FieldsNext == FieldsStart \/ SweepStep \/ SweepCommand

FieldsSpec == FieldsInit /\ [][FieldsNext]_vars

(* ----------------------------------------------------------------- claims *)

\* The link records written for work item t, and the replies attempted for it.
RecordsOf(t) == {i \in LinkIds : links[i].task = t}

RepliesTo(t) == {i \in 1..Len(outbox) : outbox[i].task = t}

\* Position of a status value in the pipeline order.
Rank(status) == CHOOSE i \in 1..Len(StatusOrder) : StatusOrder[i] = status

\* The invocation for t has ended with at most one failed stage (scrape,
\* analyze, embed or graph) and no other call failing.
AtMostOneStageFailed(t) ==
    /\ proc[t].pc \in Terminal
    /\ ~proc[t].otherFail
    /\ proc[t].stageFails <= 1

\* C1: when process_link_background has ended for a work item and either no
\* stage failed or exactly one of scrape, analyze, embed, graph failed while
\* every other step succeeded, exactly one link record has been persisted for
\* the item and exactly one reply has been attempted for it.
C1_OneRecordOneReply ==
    \A t \in Tasks :
        AtMostOneStageFailed(t) =>
            /\ Cardinality(RecordsOf(t)) = 1
            /\ Cardinality(RepliesTo(t)) = 1

\* C1 case: an invocation that ended through the except handler after exactly
\* one stage failure, with its single fallback record and single reply.
C1_Witness ==
    \E t \in Tasks :
        /\ proc[t].pc = "failed"
        /\ proc[t].stageFails = 1
        /\ ~proc[t].otherFail
        /\ \E i \in RecordsOf(t) : links[i].tags = <<"Processing Failed">>
        /\ Cardinality(RepliesTo(t)) = 1

\* C2: process_link_background never persists more than one link record for
\* a work item (enriched or fallback, never both), even when a step after the
\* enriched save fails.
C2_AtMostOneRecord == \A t \in Tasks : Cardinality(RecordsOf(t)) <= 1

\* C2 case: a work item with both an enriched and a fallback record.
C2_BothRecords ==
    \E t \in Tasks :
        \E i, j \in RecordsOf(t) : links[i].hasEmbedding /\ ~links[j].hasEmbedding

\* C3: every work item whose invocation has ended has had at least one reply
\* attempted to the sender, whichever step failed, a failed enriched or
\* fallback save included.
C3_EndedImpliesReplied ==
    \A t \in Tasks : proc[t].pc \in Terminal => RepliesTo(t) # {}

\* C3 case: an invocation that ended with no reply attempted and no record.
C3_EndedSilently ==
    \E t \in Tasks :
        /\ proc[t].pc \in Terminal
        /\ RepliesTo(t) = {}
        /\ RecordsOf(t) = {}

\* C4: every link record written, enriched or fallback, has a non-empty
\* title, summary and category and a non-empty tag list.
C4_RecordFieldsNonEmpty ==
    \A i \in LinkIds :
        /\ Truthy(links[i].title)
        /\ Truthy(links[i].summary)
        /\ Truthy(links[i].category)
        /\ links[i].tags # <<>>

\* C4 case: a fallback record with an empty title.
C4_EmptyTitleRecord ==
    \E i \in LinkIds : links[i].title = "" /\ ~links[i].hasEmbedding

\* C5: when scrape_url returned the empty result for a work item, the record
\* just persisted for that item has the submitted URL as its title.
C5_EmptyScrapeTitleIsUrl ==
    \A t \in Tasks :
        ( /\ proc[t].pc \in {"update_user", "send_fallback"}
          /\ "scrape" \in Range(proc[t].stages)
          /\ proc[t].scraped = EmptyScrape )
        => \E i \in RecordsOf(t) : links[i].title = pending[t].url

\* C5 case: scrape_url returned the empty result and a record was persisted
\* for the item all the same.
C5_EmptyScrapeRecordPersisted ==
    \E t \in Tasks :
        /\ proc[t].pc = "send_fallback"
        /\ "scrape" \in Range(proc[t].stages)
        /\ proc[t].scraped = EmptyScrape
        /\ RecordsOf(t) # {}

\* C6: once process_link_background has ended, a success has deleted the
\* pending_processing entry, and a failure has left it in place with status
\* 'failed' and the error detail.
C6_DeletedOrMarkedFailed ==
    \A t \in Tasks :
        /\ proc[t].pc = "done" => ~pending[t].exists
        /\ proc[t].pc \in {"failed", "crashed"} =>
              /\ pending[t].exists
              /\ pending[t].status = "failed"
              /\ pending[t].error # Missing

\* C6 case: a failed invocation whose entry is still 'queued' with no error.
C6_FailedButQueued ==
    \E t \in Tasks :
        /\ proc[t].pc = "crashed"
        /\ pending[t].exists
        /\ pending[t].status = "queued"
        /\ pending[t].error = Missing

NoStageTwice(t) ==
    \A i, j \in 1..Len(proc[t].stages) :
        proc[t].stages[i] = proc[t].stages[j] => i = j

\* C8: a work item is attempted once: no stage runs twice for it, its
\* attempts counter keeps its initial value 0, no stage runs once its entry
\* is 'failed', and an invocation that has ended never moves again.
C8_AttemptedOnce ==
    /\ [](\A t \in Tasks : NoStageTwice(t) /\ pending[t].attempts = 0)
    /\ [][ \A t \in Tasks :
              /\ pending[t].status = "failed" =>
                    proc'[t].stages \in {proc[t].stages, <<>>}
              /\ proc[t].pc \in Terminal => proc'[t] = proc[t] ]_vars

\* C8 case: an ended, failed work item that ran some stage, with attempts
\* still 0.
C8_Witness ==
    \E t \in Tasks :
        /\ proc[t].pc = "failed"
        /\ pending[t].status = "failed"
        /\ pending[t].attempts = 0
        /\ \E i \in RecordsOf(t) : ~links[i].hasEmbedding

\* seq is an initial segment of Stages.
IsStagePrefix(seq) ==
    /\ Len(seq) <= Len(Stages)
    /\ \A i \in 1..Len(seq) : seq[i] = Stages[i]

\* C9: the stages run strictly in the order scrape, analyze, embed, graph,
\* each starting only after the previous one returned; and the step that
\* writes the enriched record happens only after embed and graph have
\* returned, with the entry in status 'saving'.
C9_StagesInOrder ==
    /\ [](\A t \in Tasks : IsStagePrefix(proc[t].stages))
    /\ [][ \A t \in Tasks :
              ( /\ Len(links') = Len(links) + 1
                /\ links'[Len(links')].task = t
                /\ links'[Len(links')].hasEmbedding )
              => /\ proc[t].stages = Stages
                 /\ pending[t].status = "saving" ]_vars

\* C9 case: the enriched record has just been written, after all four stages.
C9_Witness ==
    \E t \in Tasks :
        /\ proc[t].pc = "update_user"
        /\ proc[t].stages = Stages
        /\ pending[t].status = "saving"
        /\ \E i \in RecordsOf(t) : links[i].hasEmbedding

\* C10: a webhook call whose sender matches no user attempts exactly one
\* reply, to that sender, in Hebrew when the body contains Hebrew and in
\* English otherwise, answers 403 'User not found', and creates no
\* pending_processing entry and changes no link, reminder or user state; no
\* work item ever belongs to a sender that matches no user.
C10_UnknownSenderRejected ==
    /\ [](\A t \in Tasks : find_user_by_phone(pending[t].fromNumber) # {})
    /\ [][ ( /\ msgs' = msgs + 1
             /\ lastResp'.from # Null
             /\ find_user_by_phone(lastResp'.from) = {} )
           => /\ lastResp'.code = 403
              /\ lastResp'.result = "User not found"
              /\ outbox' = Append(outbox,
                                  Message(lastResp'.from, "not_recognized",
                                          IF is_hebrew(lastResp'.body) THEN "he" ELSE "en",
                                          0))
              /\ UNCHANGED <<users, links, pending, proc>> ]_vars

\* C10 case: a Hebrew message from an unknown sender was rejected with one
\* Hebrew reply and nothing queued.
C10_Witness ==
    /\ lastResp.code = 403
    /\ lastResp.from = UnknownSender
    /\ is_hebrew(lastResp.body)
    /\ Len(outbox) = 1
    /\ outbox[1] = Message(UnknownSender, "not_recognized", "he", 0)
    /\ pending = <<>>
    /\ links = <<>>

\* A webhook call that parsed its payload and ran to its return statement
\* has just been answered (no 400, no unhandled exception).
WebhookAnswered == msgs' = msgs + 1 /\ lastResp'.from # Null

ConversationalKinds == {"menu", "reminder_set", "no_previous_link", "help"}

\* The step queued one entry and sent nothing.
OutcomeQueued ==
    /\ lastResp'.result = "queued"
    /\ Len(pending') = Len(pending) + 1
    /\ outbox' = outbox

\* The step sent exactly one conversational reply to the sender and queued
\* nothing.
OutcomeReply ==
    /\ lastResp'.code = 200
    /\ lastResp'.result \in {"success", "No context"}
    /\ pending' = pending
    /\ Len(outbox') = Len(outbox) + 1
    /\ SubSeq(outbox', 1, Len(outbox)) = outbox
    /\ outbox'[Len(outbox')].to = lastResp'.from
    /\ outbox'[Len(outbox')].kind \in ConversationalKinds

\* The step rejected the sender: one 'not recognised' reply, nothing queued.
OutcomeReject ==
    /\ lastResp'.code = 403
    /\ pending' = pending
    /\ Len(outbox') = Len(outbox) + 1
    /\ outbox'[Len(outbox')].kind = "not_recognized"

StatusMove(i, old, new) ==
    /\ links[i].reminderStatus = old
    /\ links'[i].reminderStatus = new

\* The step is a call of set_reminder on item i (from the webhook).
SetReminderOn(i) ==
    /\ msgs' = msgs + 1
    /\ lastResp'.from # Null
    /\ handle_reminder_intent(lastResp'.body) # NoIntent
    /\ \E uid \in find_user_by_phone(lastResp'.from) : users[uid].lastSavedLinkId = i

\* C13: the reminder status of an item only moves none -> pending ->
\* completed: it becomes pending only by set_reminder, it becomes completed
\* only from pending and at the ceiling of three notifications, and once
\* completed it never changes.
C13_StatusLifecycle ==
    [][\A i \in LinkIds :
          links'[i].reminderStatus # links[i].reminderStatus =>
             \/ StatusMove(i, Missing, "pending") /\ SetReminderOn(i)
             \/ /\ StatusMove(i, "pending", "completed")
                /\ links'[i].reminderCount >= MaxStage]_vars

\* C13: an item the sweep completed is pending again with count 0 after the
\* owner's reminder command.
C13_CompletedRearmed ==
    /\ Len(links) >= 2
    /\ Len(sweeps) >= 1
    /\ sweeps[1].pc = "returned"
    /\ sweeps[1].report.errors = <<>>
    /\ 2 \in Range(sweeps[1].notified)
    /\ users["u1"].lastSavedLinkId = 2
    /\ lastResp.result = "success"
    /\ links[2].reminderStatus = "pending"
    /\ links[2].reminderCount = 0
    /\ \E i \in 1..Len(outbox) : \E j \in 1..Len(outbox) :
          /\ i < j
          /\ outbox[i] = Message(KnownSender, "reminder", "en", 2)
          /\ outbox[j].kind = "reminder_set"

\* Run s notifies the item at the head of its query result and its update
\* of the item succeeds.
Fires(s) ==
    /\ s \in Sweeps
    /\ sweeps[s].pc = "fire"
    /\ Len(sweeps'[s].notified) = Len(sweeps[s].notified) + 1
    /\ sweeps'[s].report.errors = sweeps[s].report.errors

\* C14: when a run fires a due item that it read with reminderCount c, the
\* item gets count c + 1; if c + 1 reaches 3 it becomes completed with
\* nextReminderAt cleared, otherwise it stays pending and nextReminderAt is the
\* epoch-millisecond value of now + interval(c + 1, profile).
C14_FireAdvances ==
    [][\A s \in Sweeps : Fires(s) =>
          LET item == Head(sweeps[s].due)
              c == item.reminderCount
              after == links'[item.id]
          IN  /\ after.reminderCount = c + 1
              /\ IF c + 1 >= 3
                 THEN /\ after.reminderStatus = "completed"
                      /\ after.nextReminderAt = NoTime
                 ELSE /\ after.reminderStatus = "pending"
                      /\ after.nextReminderAt.kind = "int"
                      /\ after.nextReminderAt.at =
                            (now + IntervalDays(c + 1, item.reminderProfile)) * TicksPerDay]_vars

\* C14: one run has fired an item read with count 0 (now pending, count 1,
\* due in 7 days under 'smart') and an item read with count 2 (now completed,
\* count 3, no due time).
C14_Witness ==
    /\ Len(sweeps) >= 1
    /\ Len(links) >= 2
    /\ sweeps[1].notified = <<1, 2>>
    /\ sweeps[1].report.errors = <<>>
    /\ links[1].reminderStatus = "pending"
    /\ links[1].reminderCount = 1
    /\ links[1].nextReminderAt = Ms((Day0 + 7) * TicksPerDay)
    /\ links[2].reminderStatus = "completed"
    /\ links[2].reminderCount = 3
    /\ links[2].nextReminderAt = NoTime

\* The day offsets the table gives for a count and a profile.
TableDays(count, profile) ==
    CASE profile = "smart" ->
            (CASE count = 0 -> 1 [] count = 1 -> 7 [] count = 2 -> 30 [] OTHER -> 90)
      [] profile \in {"spaced", "spaced-3"} ->
            (CASE count = 0 -> 3 [] count = 1 -> 5 [] count = 2 -> 7 [] OTHER -> 90)
      [] profile = "spaced-5" ->
            (CASE count = 0 -> 5 [] count = 1 -> 7 [] count = 2 -> 14 [] OTHER -> 90)
      [] profile = "spaced-7" ->
            (CASE count = 0 -> 7 [] count = 1 -> 14 [] count = 2 -> 30 [] OTHER -> 90)

TableProfiles == {"smart", "spaced", "spaced-3", "spaced-5", "spaced-7"}

\* C15: calculate_next_reminder returns now plus the table's day offset for
\* every count and every profile of the table, and the offset depends on
\* the count and the profile only.
C15_IntervalTable ==
    /\ (call.fn = "calculate_next_reminder" /\ call.done /\ call.profile \in TableProfiles)
          => call.result = call.now + TableDays(call.count, call.profile)
    /\ \A t1 \in Times, t2 \in Times, c \in 0..MaxCount, p \in TableProfiles :
          calculate_next_reminder(c, p, t1) - t1 = calculate_next_reminder(c, p, t2) - t2

\* C15: calculate_next_reminder(2, "spaced-5") was evaluated at a time after
\* day 0 and gave now + 14 days.
C15_Witness ==
    /\ call.fn = "calculate_next_reminder"
    /\ call.done
    /\ call.count = 2
    /\ call.profile = "spaced-5"
    /\ call.now = Day0 + TickDays
    /\ call.result = Day0 + TickDays + 14

\* The text matches one of the date phrases (tomorrow, next week, in N
\* days, and their Hebrew forms).
HasDatePhrase(text) ==
    \/ \E i \in 1..Len(text) :
          Contains(text[i], "tomorrow") \/ text[i] \in {HeTomorrow, HeNextWeek}
    \/ \E i \in 1..(Len(text) - 1) : text[i] = "next" /\ text[i+1] = "week"
    \/ \E i \in 1..(Len(text) - 2) :
          /\ NumVal(text[i+1]) >= 0
          /\ \/ text[i] = "in" /\ text[i+2] \in {"day", "days"}
             \/ text[i] = HeIn /\ text[i+2] = HeDays

\* The day offset of a numeric shortcut.
ShortcutDays(tok) == CASE tok = "1" -> 1 [] tok = "2" -> 3 [] tok = "3" -> 7

Shortcuts == {"1", "2", "3"}

\* C20: handle_reminder_intent maps the whole text '1', '2', '3' to now + 1,
\* + 3, + 7 days, and a text without a date phrase that is not exactly one of
\* these digits (it may contain one) gives none.
C20_ShortcutExactMatch ==
    (call.fn = "handle_reminder_intent" /\ call.done) =>
        LET text == StripUrls(call.text)
        IN  /\ \A d \in Shortcuts :
                 text = <<d>> => call.result = call.now + ShortcutDays(d)
            /\ (~HasDatePhrase(text) /\ ~(\E d \in Shortcuts : text = <<d>>))
                 => call.result = NoIntent

\* C20: 'I said 2 things' was evaluated and gave none.
C20_Witness ==
    /\ call.fn = "handle_reminder_intent"
    /\ call.done
    /\ call.text = <<"I", "said", "2", "things">>
    /\ call.result = NoIntent

\* Item i is one the sweep may fire: its owner has reminders enabled and a
\* phone number, it is pending, and it is due at the run's current time.
Eligible(i, s) ==
    LET owner == users[links[i].uid]
    IN  /\ RemindersEnabled(owner.settings)
        /\ Truthy(UserPhone(owner))
        /\ links[i].reminderStatus = "pending"
        /\ links[i].nextReminderAt.kind = "int"
        /\ links[i].nextReminderAt.at <= sweeps[s].now_ms
        /\ sweeps[s].now_ms = now * TicksPerDay

\* The step of run s is the conversion write for item i, read as a legacy
\* timestamp by the run's cleanup query: it stores that timestamp's
\* millisecond value and changes nothing else of the item.
Converted(s, i) ==
    /\ sweeps[s].pc = "clean"
    /\ i = Head(sweeps[s].clean).id
    /\ links'[i] = [links[i] EXCEPT !.nextReminderAt =
                       [kind |-> "int", at |-> Head(sweeps[s].clean).new_ms]]

\* C16: a run takes into its batch only items that are eligible when it
\* queries them; it sends a notification only for the item of the batch it
\* is handling, to its owner's phone; and a step of a run changes only that
\* item, or converts a legacy timestamp, leaving every other item as it was.
C16_SweepFrame ==
    [][\A s \in Sweeps : sweeps'[s] # sweeps[s] =>
          /\ sweeps[s].pc = "query" =>
                \A k \in 1..Len(sweeps'[s].due) :
                    /\ Eligible(sweeps'[s].due[k].id, s)
                    /\ links[sweeps'[s].due[k].id].uid = sweeps[s].uid
          /\ sweeps[s].pc # "query" => \A k \in 1..Len(sweeps'[s].due) :
                \E j \in 1..Len(sweeps[s].due) : sweeps'[s].due[k] = sweeps[s].due[j]
          /\ \A i \in LinkIds : links'[i] # links[i] =>
                \/ Converted(s, i) /\ links[i].reminderStatus = "pending"
                \/ /\ sweeps[s].pc = "fire"
                   /\ i = Head(sweeps[s].due).id
                   /\ links[i].reminderStatus = "pending"
                   /\ RemindersEnabled(users[links[i].uid].settings)
                   /\ Truthy(UserPhone(users[links[i].uid]))
          /\ outbox' # outbox =>
                /\ sweeps[s].pc = "fire"
                /\ LET i == Head(sweeps[s].due).id
                   IN  outbox' = Append(outbox,
                          Message(WhatsApp(UserPhone(users[links[i].uid])), "reminder", "en", i))]_vars

\* C16: a run over the mixed items has returned having notified the due
\* items of the two enabled users with a phone (1, 2 and 7); the item not
\* yet due was converted only, and the unarmed item and the items of the
\* disabled user and of the user without a phone are as they were.
C16_Witness ==
    /\ Len(sweeps) >= 1
    /\ Len(links) = Len(MixedLinks)
    /\ sweeps[1].pc = "returned"
    /\ sweeps[1].notified = <<1, 2, 7>>
    /\ Len(outbox) = 3
    /\ links[3] = [MixedLinks[3] EXCEPT !.nextReminderAt = Ms(40 * TicksPerDay)]
    /\ links[4] = MixedLinks[4]
    /\ links[5] = MixedLinks[5]
    /\ links[6] = MixedLinks[6]
    /\ links[7].reminderCount = 2

\* The items of user uid that run s has notified.
NotifiedOf(s, uid) ==
    {k \in 1..Len(sweeps[s].notified) : links[sweeps[s].notified[k]].uid = uid}

\* C17: a run notifies and advances at most 10 items of any one user, and
\* while it handles a batch every other due item of that user keeps its
\* status and its due time.
C17_AtMostTenPerUser ==
    /\ [](\A s \in Sweeps : \A uid \in DOMAIN users :
            /\ Cardinality(NotifiedOf(s, uid)) <= 10
            /\ sweeps[s].uid = uid =>
                  Cardinality(NotifiedOf(s, uid)) + Len(sweeps[s].due) <= 10)
    /\ [][\A s \in Sweeps : (sweeps[s].pc = "fire" /\ sweeps'[s] # sweeps[s]) =>
            \A i \in DueOf(sweeps[s].uid, sweeps[s].now_ms, links) :
                i # Head(sweeps[s].due).id =>
                    /\ links'[i].reminderStatus = "pending"
                    /\ links'[i].nextReminderAt = links[i].nextReminderAt]_vars

\* C17: a run over 11 due items of one user has returned with 10 of them
\* notified and advanced; the 11th is as it was, still pending and due.
C17_Witness ==
    /\ Len(sweeps) = 1
    /\ Len(links) = BatchLimit + 1
    /\ sweeps[1].pc = "returned"
    /\ sweeps[1].report.reminders_sent = 10
    /\ sweeps[1].report.errors = <<>>
    /\ Cardinality(NotifiedOf(1, "u1")) = 10
    /\ \A i \in 1..10 : links[i].reminderCount = 1 /\ links[i].nextReminderAt.at > now * TicksPerDay
    /\ links[11] = BatchLinks[11]
    /\ DueOf("u1", now * TicksPerDay, links) = {11}

\* C18: a failure while a run handles one user or one item does not end the
\* run, and a run that returned its report has recorded every failure in
\* report.errors.
C18_FailuresRecorded ==
    \A s \in Sweeps :
        /\ sweeps[s].uid # "" => sweeps[s].pc # "raised"
        /\ sweeps[s].pc = "returned" => Len(sweeps[s].report.errors) = sweeps[s].faults

\* C18: the cleanup query or a conversion write raised while the run handled
\* user u1: the run ended with an exception, nothing in report.errors, no
\* report returned, and the due item of the later user u4 was not handled.
C18_AbortedAtUser ==
    /\ Len(sweeps) = 1
    /\ Len(links) = Len(MixedLinks)
    /\ sweeps[1].pc = "raised"
    /\ sweeps[1].uid = "u1"
    /\ sweeps[1].report.errors = <<>>
    /\ sweeps[1].notified = <<>>
    /\ links[7] = MixedLinks[7]
    /\ 7 \in DueOf("u4", now * TicksPerDay, links)

\* C19: whenever a step stores nextReminderAt (set_reminder or a run of the
\* sweep), the stored value is an integer of epoch milliseconds or null, never
\* a native timestamp; and when a run is about to query a user's due items,
\* no pending item of that user holds a legacy timestamp.
C19_IntegerDueTimes ==
    /\ [](\A s \in Sweeps : sweeps[s].pc = "query" =>
            \A i \in PendingOf(sweeps[s].uid, links) :
                links[i].nextReminderAt.kind # "timestamp")
    /\ [][\A i \in LinkIds :
            links'[i].nextReminderAt # links[i].nextReminderAt =>
                \/ links'[i].nextReminderAt = [kind |-> "null", at |-> 0]
                \/ /\ links'[i].nextReminderAt.kind = "int"
                   /\ links'[i].nextReminderAt.at >= 0]_vars

\* C19: a run is about to query the due items of u1 after converting both
\* of u1's legacy timestamps (day 0 and day 40) to milliseconds.
C19_Witness ==
    /\ Len(sweeps) = 1
    /\ Len(links) = Len(MixedLinks)
    /\ sweeps[1].pc = "query"
    /\ sweeps[1].uid = "u1"
    /\ MixedLinks[2].nextReminderAt.kind = "timestamp"
    /\ MixedLinks[3].nextReminderAt.kind = "timestamp"
    /\ links[2].nextReminderAt = [kind |-> "int", at |-> 0]
    /\ links[3].nextReminderAt = [kind |-> "int", at |-> 40 * TicksPerDay]
    /\ msgs = 0

\* The URLs of the message tokens, however their scheme is capitalised.
AllUrls == {Url1, Url2, UrlTomorrow, UrlCaps}

RECURSIVE WithoutUrls(_)
\* The lowercased text with every URL removed.
WithoutUrls(body) ==
    IF body = <<>> THEN <<>>
    ELSE IF Head(body) \in AllUrls THEN WithoutUrls(Tail(body))
    ELSE <<Lower(Head(body))>> \o WithoutUrls(Tail(body))

\* C21: handle_reminder_intent decides on the text outside URLs only: a
\* text whose URL-free part holds no date phrase and is no shortcut gives none
\* (so a date word or digit inside a URL never yields a due time), and a URL
\* followed by 'tomorrow', 'next week' or 'in N days' gives now + 1, + 7, + N
\* days.
C21_UrlsIgnored ==
    (call.fn = "handle_reminder_intent" /\ call.done) =>
        LET text == WithoutUrls(call.text)
        IN  /\ (~HasDatePhrase(text) /\ ~(\E d \in Shortcuts : text = <<d>>))
                 => call.result = NoIntent
            /\ text = <<"tomorrow">> => call.result = call.now + 1
            /\ text = <<"next", "week">> => call.result = call.now + 7
            /\ \A n \in {2, 5} :
                 (Len(text) = 3 /\ text[1] = "in" /\ NumVal(text[2]) = n /\ text[3] = "days")
                     => call.result = call.now + n

\* C21: a message that is only the URL 'Https://Example.com/Tomorrow' was
\* evaluated and gave now + 1 day.
C21_UrlWordMatched ==
    /\ call.fn = "handle_reminder_intent"
    /\ call.done
    /\ call.text = <<UrlCaps>>
    /\ call.result = call.now + 1

\* Every request the branch can make for this input fails: network error,
\* timeout or a response that is not ok.
AllInaccessible(in) ==
    CASE in.branch = "generic" -> in.g.net \in Inaccessible
      [] in.branch = "twitter" ->
            in.fx.net \in Inaccessible /\ in.vx.net \in Inaccessible
               /\ in.meta.net \in Inaccessible
      [] in.branch = "instagram" ->
            /\ in.direct.net \in Inaccessible
            /\ \A k \in 1..Len(in.bridges) : in.bridges[k].net \in Inaccessible
      [] OTHER ->
            in.yt.page \in Inaccessible /\ in.yt.oembed \in Inaccessible /\ ~in.yt.transcript

\* C22: in every branch, when the URL is completely inaccessible scrape_url
\* returns the empty result, title '' and text ''.
C22_InaccessibleGivesEmpty ==
    (call.fn = "scrape_url" /\ call.done /\ AllInaccessible(call.in)) =>
        call.result.title = "" /\ call.result.text = ""

\* C22: an Instagram URL whose page and bridges all failed, sent without a
\* caption, came back with the title 'Instagram Link' and a non-empty text.
C22_InstagramPlaceholder ==
    /\ call.fn = "scrape_url"
    /\ call.done
    /\ call.in.branch = "instagram"
    /\ AllInaccessible(call.in)
    /\ call.in.caption_len = 0
    /\ call.result.title = "Instagram Link"
    /\ call.result.text # ""

\* What each strategy of the Twitter chain yields on its own.
PrimaryAccepted(in) == in.fx.net = "ok" /\ in.fx.tweet /\ (in.fx.text \/ in.fx.quote \/ in.fx.media)

SecondaryAccepted(in) == in.vx.net = "ok" /\ (in.vx.media \/ in.vx.text_len > 100)

SecondaryThin(in) == in.vx.net = "ok" /\ ~in.vx.media /\ in.vx.text_len <= 100

DirectAccepted(in) == in.meta.net = "ok" /\ (in.meta.title \/ in.meta.desc)

\* C23: the Twitter fallback chain: the primary bridge result is returned
\* iff it has text, a quote or media; otherwise the secondary result iff it
\* has media or text longer than the threshold; otherwise the direct metadata
\* result iff it has a title or text; otherwise the thin secondary result if
\* there was one, else the empty result; and no strategy is attempted after
\* one was accepted.
C23_TwitterChain ==
    (call.fn = "scrape_url" /\ call.done /\ call.in.branch = "twitter") =>
        LET in == call.in
            src == call.result.source
        IN  /\ src = "fxtwitter" <=> PrimaryAccepted(in)
            /\ PrimaryAccepted(in) => call.attempted = <<"fxtwitter">>
            /\ ~PrimaryAccepted(in) =>
                 /\ (src = "vxtwitter" /\ call.attempted = <<"fxtwitter", "vxtwitter">>)
                       <=> SecondaryAccepted(in)
                 /\ ~SecondaryAccepted(in) =>
                      /\ call.attempted = <<"fxtwitter", "vxtwitter", "metadata">>
                      /\ src = "metadata" <=> DirectAccepted(in)
                      /\ ~DirectAccepted(in) =>
                            /\ SecondaryThin(in) => src = "vxtwitter"
                            /\ ~SecondaryThin(in) => call.result = EmptyResult
            /\ src \in {"fxtwitter", "vxtwitter", "metadata"} =>
                 call.result.title # "" /\ call.result.text # ""

\* C23: the primary bridge failed, the secondary gave a thin tweet (exactly
\* 100 characters, no media), the direct scrape found nothing, and the thin
\* secondary result was returned after all three strategies were tried.
C23_Witness ==
    /\ call.fn = "scrape_url"
    /\ call.done
    /\ call.in.branch = "twitter"
    /\ call.in.fx.net = "error"
    /\ call.in.vx = [net |-> "ok", text_len |-> 100, media |-> FALSE]
    /\ call.in.meta = [net |-> "ok", title |-> FALSE, desc |-> FALSE]
    /\ call.result.source = "vxtwitter"
    /\ call.attempted = <<"fxtwitter", "vxtwitter", "metadata">>

GraphReturned == call.fn = "find_related_links" /\ call.done

\* The ids the verification response named (none unless it was a list).
NamedByLlm ==
    IF call.in.llm.kind = "list"
    THEN {call.in.llm.rels[i].id : i \in 1..Len(call.in.llm.rels)}
    ELSE {}

\* C24: every entry of the list returned by find_related_links has an id
\* that was retrieved as a nearest-neighbour candidate and was named by the
\* verification response, and is never the new item's own id.
C24_OnlyVerifiedCandidates ==
    GraphReturned =>
        \A i \in 1..Len(call.result) :
            /\ call.result[i] \in Range(call.in.retrieval.ids)
            /\ call.result[i] \in NamedByLlm
            /\ call.result[i] # call.in.new_link_id

\* C24: documents 1 and 2 were retrieved, the verification named 2 and the
\* unretrieved 3, and only 2 was returned.
C24_Witness ==
    /\ GraphReturned
    /\ call.in.retrieval.ids = <<1, 2>>
    /\ call.in.llm = [kind |-> "list", rels |-> <<Rel(2), Rel(3)>>]
    /\ call.result = <<2>>

\* The work item ended and nothing went wrong except that find_related_links
\* gave up.
OnlyGraphFailed(t) ==
    /\ proc[t].pc \in Terminal
    /\ ~proc[t].otherFail
    /\ proc[t].graphFailed
    /\ proc[t].stageFails = 1

\* C25: when candidate retrieval or the verification fails,
\* find_related_links returns [] without raising, and
\* process_link_background then persists the enriched record, not the
\* degraded one, with an empty relatedLinks.
C25_GraphFailureKeepsEnriched ==
    /\ \A t \in Tasks :
          proc[t].pc \notin {"start", "crashed"} /\ proc[t].graphFailed
             /\ "graph" \in Range(proc[t].stages)
             => proc[t].related = {}
    /\ \A t \in Tasks :
          OnlyGraphFailed(t) =>
             /\ proc[t].pc = "done"
             /\ \E i \in LinkIds : RecordsOf(t) = {i}
             /\ \A i \in RecordsOf(t) :
                   /\ links[i].hasEmbedding
                   /\ links[i].summary # "Cloud processing error"
                   /\ links[i].relatedLinks = {}

\* C25: a work item whose owner already had a record with a vector ended
\* with only the graph stage failed, and its enriched record is saved.
C25_Witness ==
    \E t \in Tasks :
       /\ OnlyGraphFailed(t)
       /\ Candidates(pending[t].uid) \ RecordsOf(t) # {}
       /\ \E i \in RecordsOf(t) : links[i].hasEmbedding /\ links[i].relatedLinks = {}

AnalyzeReturned == call.fn = "analyze_text" /\ call.done

\* An object with non-null title, summary and category and at most 5 tags.
WellShaped(a) ==
    /\ a.type = "dict"
    /\ {"title", "summary", "category", "tags"} \subseteq a.obj.present
    /\ a.obj.v.title # Null
    /\ a.obj.v.summary # Null
    /\ a.obj.v.category # Null
    /\ Len(a.obj.v.tags) <= 5

\* C26: for every input text and every model outcome analyze_text returns an
\* object with non-null title, summary and category and a tags list of at
\* most 5 entries; a single-element list is unwrapped and any other
\* non-object output is replaced by the fallback annotation, so what goes on
\* to the record is such an object too.
C26_AnalysisWellShaped ==
    AnalyzeReturned =>
        /\ WellShaped(call.result)
        /\ WellShaped(call.validated)
        /\ call.in.outcome \in {"empty_list", "string", "null", "list_of_two"}
              => call.validated = JDict(MockAnalysis)

\* C26: the model answered with a JSON string and analyze_text returned it
\* as it was; the caller's validation left it a string.
C26_RawShapeReturned ==
    /\ AnalyzeReturned
    /\ call.in.outcome = "string"
    /\ call.result = JStr
    /\ call.validated = JStr

\* Every work item has ended and no call other than a stage has failed.
AllSavesEnded ==
    \A t \in Tasks : proc[t].pc \in Terminal /\ ~proc[t].otherFail

\* C27: the owner's lastSavedLinkId always refers to an existing record of
\* that owner, and once the concurrent saves of the owner have all finished
\* it is the id of the record of the save that completed last, whether
\* enriched or degraded -- whichever save that was, the pointer then names
\* a record written by one of these saves.
C27_PointerIsLastSave ==
    \A uid \in UIDs :
       LET ptr == users[uid].lastSavedLinkId
       IN  /\ ptr \in LinkIds
           /\ links[ptr].uid = uid
           /\ AllSavesEnded /\ (\E t \in Tasks : pending[t].uid = uid /\ RecordsOf(t) # {})
                 => links[ptr].task \in Tasks

\* C27: both saves of the owner have ended, each with its degraded record
\* written, and lastSavedLinkId still names the record saved before them.
C27_DegradedSaveNotPointed ==
    /\ AllSavesEnded
    /\ \A t \in Tasks :
          /\ proc[t].pc = "failed"
          /\ \E i \in RecordsOf(t) : ~links[i].hasEmbedding
    /\ users["u1"].lastSavedLinkId = 1
    /\ links[1].task \notin Tasks

\* The owner's records at this moment.
CorpusOf(uid) == {i \in LinkIds : links[i].uid = uid}

\* C28: processing and persisting a new item never modifies the record of a
\* previously saved item -- the only record a step changes is the one the
\* running work item has just written itself (its reminder fields), no
\* relatedLinks ever changes after creation, no record disappears -- and the
\* relatedLinks of a newly written record name only records that were in
\* the owner's corpus when it was written.
C28_SaveFrame ==
    [][ /\ Len(links') >= Len(links)
        /\ \A i \in LinkIds :
              /\ links'[i].relatedLinks = links[i].relatedLinks
              /\ links'[i] # links[i]
                    => \E t \in Tasks : /\ proc[t].pc = "reminder"
                                        /\ proc[t].link_id = i
                                        /\ links[i].task = t
        /\ \A j \in (Len(links) + 1)..Len(links') :
              links'[j].relatedLinks \subseteq CorpusOf(links'[j].uid)
      ]_vars

\* C28: the new record names the earlier record as related and has had its
\* reminder set, and the earlier record is as it was.
C28_Witness ==
    /\ links[1] = SeedLink
    /\ \E j \in LinkIds :
          /\ links[j].task \in Tasks
          /\ links[j].relatedLinks = {1}
          /\ links[j].reminderStatus = "pending"

\* C29: a call of a preview endpoint, analyze_link or analyze_image,
\* successful or failed, with or without an owner id, leaves every links
\* collection, every user record with its lastSavedLinkId, and the
\* pending_processing queue unchanged.
C29_PreviewNeverWrites ==
    [][ call' # call => /\ links' = links
                        /\ users' = users
                        /\ pending' = pending ]_vars

\* C29: analyze_link answered 200 for owner u1 with the stored record named
\* as related, and that record was already in the store.
C29_Witness ==
    /\ call.fn = "analyze_link"
    /\ call.req.uid = "u1"
    /\ call.resp.code = 200
    /\ call.resp.link.relatedLinks = <<1>>
    /\ links[1] = SeedLink
    /\ users["u1"].lastSavedLinkId = 1

EmbeddingReturned == call.fn = "sync_link_embedding" /\ call.pc # "embed"

\* C30: an embedding failure never blocks persistence and degrades to a
\* sentinel vector: the created record stays in the store, and
\* generate_embedding returns a vector of 768 entries for every input
\* without raising, the zero vector both when no credential is configured
\* and when the provider call fails.
C30_EmbeddingNeverRaises ==
    /\ Len(links) >= 1
    /\ EmbeddingReturned =>
          /\ ~call.raised
          /\ call.vector.dim = EmbedDim
          /\ (~call.in.has_key \/ call.in.provider # "vector") => call.vector = ZeroVector

\* C30: a credential is configured, the provider call raised, and
\* generate_embedding raised in turn; the record was left without a vector.
C30_ProviderFailureRaises ==
    /\ call.fn = "sync_link_embedding"
    /\ call.pc = "end"
    /\ call.in.has_key
    /\ call.in.provider = "raises"
    /\ call.raised
    /\ ~links[1].hasEmbedding

IntentOf(t) == handle_reminder_intent(pending[t].body)

\* The record carries the reminder that the work item's message asked for.
ReminderSetFor(t, i) ==
    /\ links[i].reminderStatus = "pending"
    /\ links[i].reminderCount = 0
    /\ links[i].nextReminderAt = Ms(ToMs(now + IntentOf(t)))

NoReminderOn(i) ==
    /\ links[i].reminderStatus = Missing
    /\ links[i].nextReminderAt = NoTime

\* C31: when the message of a work item contains a reminder intent, the
\* reminder (pending, count 0, due time from the intent) is set on the record
\* persisted for that work item -- it is there by the time the reply is
\* sent, and it is written only on a record that exists and before any reply
\* for the item; without an intent the record's reminder fields stay none.
C31_ReminderBetweenSaveAndReply ==
    /\ [](\A t \in Tasks :
            /\ IntentOf(t) # NoIntent /\ RepliesTo(t) # {}
                  => \E i \in RecordsOf(t) : ReminderSetFor(t, i)
            /\ IntentOf(t) = NoIntent
                  => \A i \in RecordsOf(t) : NoReminderOn(i))
    /\ [][\A i \in LinkIds :
            links'[i].reminderStatus # links[i].reminderStatus
               => /\ links[i].task \in Tasks
                  /\ RepliesTo(links[i].task) = {}]_vars

\* C31: the message asked for a reminder, the analysis failed, the degraded
\* record was saved and the reply sent, no call to the store failed, and the
\* record carries no reminder.
C31_DegradedDropsReminder ==
    \E t \in Tasks :
       /\ IntentOf(t) # NoIntent
       /\ proc[t].pc = "failed"
       /\ ~proc[t].otherFail
       /\ RepliesTo(t) # {}
       /\ RecordsOf(t) # {}
       /\ \A i \in RecordsOf(t) : NoReminderOn(i)

\* The latest request came from a recognised sender with an attachment and
\* no URL in its text.
MediaOnlyRequest ==
    /\ call.fn = "whatsapp_webhook"
    /\ call.data.media # NoMedia
    /\ FirstUrl(call.data.Body) = Null
    /\ find_user_by_phone(call.data.From) # {}

\* C32: a message of a recognised sender with a media attachment and no URL
\* in its text is accepted for processing: the request is answered "queued",
\* a work item recording the media URL, the media flag and the MIME type
\* exists, and no command reply (menu, help, reminder) has been sent.
C32_MediaQueued ==
    MediaOnlyRequest =>
       /\ lastResp.result = "queued"
       /\ \E t \in Tasks :
             /\ {"mediaUrl", "isMedia", "mimeType"} \subseteq DOMAIN pending[t]
             /\ pending[t].mediaUrl = call.data.media.url
             /\ pending[t].mimeType = call.data.media.mime
       /\ outbox = <<>>

\* C32: the recognised sender posted an image with a caption that is no
\* command; nothing was queued and the help text for unrecognised commands
\* was sent.
C32_MediaAnsweredAsCommand ==
    /\ MediaOnlyRequest
    /\ call.data.Body = <<"hello">>
    /\ pending = <<>>
    /\ lastResp.code = 200 /\ lastResp.result = "success"
    /\ Len(outbox) = 1 /\ outbox[1].kind = "help"

\* The non-URL text of the message, trimmed, is the digit 2.
ShortcutTwo(text) == StripUrls(text) = <<"2">>

\* C33: whenever set_reminder has been called for a message, by the command
\* branch of whatsapp_webhook or by process_link_background, the profile it
\* stored is 'spaced' exactly when the non-URL text of the message is the
\* menu shortcut '2', and 'smart' for every other intent -- so both callers
\* pick the same profile for the same intent.
C33_ProfileFromShortcut ==
    (call.fn = "reminder_profile" /\ call.done /\ links[1].reminderStatus = "pending")
       => links[1].reminderProfile =
             IF ShortcutTwo(call.text) THEN "spaced" ELSE "smart"

\* C33: the message is a link whose URL holds a '2', followed by 'in 5
\* days'; the background job has armed the saved record for five days and
\* stored the profile 'spaced'.
C33_UrlDigitPicksSpaced ==
    /\ call.fn = "reminder_profile" /\ call.done
    /\ call.text = <<Url2, "in", "5", "days">>
    /\ links[1].reminderStatus = "pending"
    /\ links[1].nextReminderAt = Ms(ToMs(now + 5))
    /\ links[1].reminderProfile = "spaced"

\* The site a URL belongs to: its host is the domain or a subdomain of it.
SiteOf(url) ==
    CASE url \in {UrlTwitter, UrlMobileTwitter} -> "twitter.com"
      [] url = UrlX -> "x.com"
      [] url = UrlInstagram -> "instagram.com"
      [] url = UrlYoutube -> "youtube.com"
      [] url = UrlYoutuBe -> "youtu.be"
      [] url = UrlNetflix -> "netflix.com"
      [] url = UrlDropbox -> "dropbox.com"
      [] OTHER -> "example.com"

\* C34: scrape_url handles a URL in the Twitter/X branch only when it is a
\* twitter.com or x.com URL, in the Instagram branch only when it is an
\* instagram.com URL, in the YouTube branch only when it is a youtube.com or
\* youtu.be URL, and in the generic web branch when it is none of these --
\* also when its host merely ends in the letters 'x.com'.
C34_DispatchBySite ==
    (call.fn = "scrape_url" /\ call.done) =>
       LET site == SiteOf(call.url) IN
       /\ call.branch = "twitter" => site \in {"twitter.com", "x.com"}
       /\ call.branch = "instagram" => site = "instagram.com"
       /\ call.branch = "youtube" => site \in {"youtube.com", "youtu.be"}
       /\ site \notin {"twitter.com", "x.com", "instagram.com", "youtube.com", "youtu.be"}
             => call.branch = "generic"

\* C34: a netflix.com URL has been handled by the Twitter/X branch, which
\* tried the tweet bridges.
C34_NetflixTakenForX ==
    /\ call.fn = "scrape_url" /\ call.done
    /\ call.url = UrlNetflix
    /\ call.branch = "twitter"
    /\ call.attempted # <<>> /\ call.attempted[1] = "fxtwitter"

\* C35: search_links searches only for an authenticated caller and only over
\* that caller's own links: a request without authentication gets the 'User
\* must be authenticated' error and no items, whatever its payload holds; an
\* authenticated caller gets only items of its own collection; and no
\* returned item carries the embedding vector.
C35_SearchOwnLinksOnly ==
    (call.fn = "search_links" /\ call.done) =>
       LET resp == call.resp
           items == {resp.links[k] : k \in 1..Len(resp.links)}
       IN  /\ call.req.auth = Null
                => /\ resp.links = <<>>
                   /\ resp.code # "ok"
                   /\ resp.text = "User must be authenticated"
           /\ call.req.auth # Null => \A it \in items : it.uid = call.req.auth
           /\ \A it \in items : "embedding_vector" \notin it.keys

\* C35: a request without authentication whose payload names another user in
\* test_uid has been answered with that user's links.
C35_TestUidSearches ==
    /\ call.fn = "search_links" /\ call.done
    /\ call.req.auth = Null
    /\ call.req.test_uid = "u2"
    /\ call.resp.code = "ok"
    /\ Len(call.resp.links) = 1
    /\ call.resp.links[1].uid = "u2"

\* The reminder notifications sent for item i.
NotificationsOf(i) ==
    {k \in 1..Len(outbox) : outbox[k].kind = "reminder" /\ outbox[k].task = i}

\* set_reminder was called at most once and no call of a run failed: no
\* send was lost and no update raised.
ArmedOnceNoFailure == msgs <= 1 /\ SumFaults(sweeps) = 0

C37_OneNotificationPerFiring ==
    \A i \in LinkIds :
       /\ Cardinality(NotificationsOf(i)) <= 1
       /\ SumFaults(sweeps) = 0
             => links[i].reminderCount
                   = OverlapLinks[i].reminderCount + Cardinality(NotificationsOf(i))

\* C37: two runs have returned without any failed call, each has notified
\* item 1 for the same due time, and the count of item 1 went from 0 to 1.
C37_BothRunsNotified ==
    /\ Len(sweeps) = 2
    /\ \A s \in Sweeps : sweeps[s].pc = "returned" /\ 1 \in Range(sweeps[s].notified)
    /\ SumFaults(sweeps) = 0
    /\ Cardinality(NotificationsOf(1)) = 2
    /\ links[1].reminderCount = OverlapLinks[1].reminderCount + 1

\* The sender's reminder command has been answered "Reminder Set" at the
\* start time of the scenario, so the due time it chose is still ahead.
CommandSetReminder ==
    /\ msgs = 1
    /\ lastResp.code = 200 /\ lastResp.result = "success"
    /\ handle_reminder_intent(lastResp.body) # NoIntent
    /\ now = Day0

\* C38: a set_reminder issued by whatsapp_webhook while a run of
\* run_reminder_check is in progress is not lost: once the command has been
\* answered and every run has ended, the item is pending with count 0 and
\* the due time the user chose -- not completed, and not carrying the count
\* or due time the run computed from what it had read.
C38_CommandSurvivesRun ==
    (CommandSetReminder /\ \A s \in Sweeps : sweeps[s].pc \in SweepEnded) =>
       LET item == links[users["u1"].lastSavedLinkId]
       IN  /\ item.reminderStatus = "pending"
           /\ item.reminderCount = 0
           /\ item.nextReminderAt = Ms(ToMs(Day0 + handle_reminder_intent(lastResp.body)))

\* C38: the run read the item at count 2, the sender's command re-armed it,
\* the run then wrote its update; no call failed, and the item is completed
\* with count 3 and no due time.
C38_RunOverwroteCommand ==
    /\ CommandSetReminder
    /\ Len(sweeps) = 1 /\ sweeps[1].pc = "returned"
    /\ SumFaults(sweeps) = 0
    /\ users["u1"].lastSavedLinkId \in Range(sweeps[1].notified)
    /\ LET item == links[users["u1"].lastSavedLinkId]
       IN  /\ item.reminderStatus = "completed"
           /\ item.reminderCount = MaxStage
           /\ item.nextReminderAt = NoTime

\* Item i is pending and due at the current time.
DueNow(i) == i \in DueOf(links[i].uid, ToMs(now), links)

\* C39: under repeated runs of run_reminder_check in which sends and updates
\* succeed and no reminder is set anew, every item that is pending and due
\* for the user is eventually notified -- again and again nothing is left
\* due, and an item stops being due only in a step that sends its
\* notification -- and every armed item is eventually completed for good,
\* with eleven items of the user due at once, more than one run takes.
C39_EveryDueItemNotifiedAndCompleted ==
    /\ []<>(\A i \in 1..MaxDue : ~DueNow(i))
    /\ [][\A i \in 1..MaxDue :
            (DueNow(i) /\ ~DueNow(i)')
               => \E k \in 1..Len(outbox') :
                     /\ k > Len(outbox)
                     /\ outbox'[k].kind = "reminder" /\ outbox'[k].task = i]_vars
    /\ <>[](\A i \in 1..MaxDue : links[i].reminderStatus = "completed")

\* C39: more items than one run takes were due at once, and every one of
\* them has been notified three times and is completed.
C39_Witness ==
    /\ Len(links) = MaxDue /\ MaxDue > BatchLimit
    /\ \A i \in 1..MaxDue : BatchLinks[i].reminderStatus = "pending"
    /\ \A i \in 1..MaxDue :
          /\ links[i].reminderStatus = "completed"
          /\ Cardinality(NotificationsOf(i)) = MaxStage

====
